---- MODULE Spec2Model ----
(***************************************************************************)
(* Version lifecycle of scitex-container: versioned SIF images             *)
(* (apptainer/_versioning.py) and versioned sandbox directories            *)
(* (apptainer/_sandbox_versioning.py) in one containers directory, with    *)
(* the current.sif / current-sandbox symlink as the active pointer.        *)
(*                                                                         *)
(* A file name is a sequence of tokens; a version string is the sequence   *)
(* of tokens between the fixed prefix and suffix of a name.  The directory *)
(* is two maps: `files` (regular files and directories, with their         *)
(* modification time) and `links` (symbolic links, with their target).     *)
(***************************************************************************)
EXTENDS Integers, Sequences, FiniteSets, TLC

\* ---- bounds ----
NumVersions == 3    \* distinct version strings that may occur in the directory
MaxMtime == 3       \* modification times are drawn from 1..MaxMtime
MaxKeep == 1        \* keep arguments are drawn from 0..MaxKeep
MaxFailAt == 2      \* the removal that fails in a cleanup is one of the first MaxFailAt (0: none)
MaxNameLen == 3     \* names given to the parsers have 1..MaxNameLen tokens

\* ---- names ----
Kinds == {"image", "sandbox"}

\* Python's None (both regexes need at least one character, so no parsed
\* version is the empty sequence)
None == << >>

\* the version strings: opaque strings for images ("2.19.1", ...), timestamps
\* YYYYMMDD_HHMMSS for sandboxes
VersionTokens == <<"1", "2", "3", "4", "5">>
StampTokens == <<"20260225_000001", "20260225_000002", "20260225_000003",
                 "20260225_000004", "20260225_000005">>

ImageVersions == { <<VersionTokens[n]>> : n \in 1..NumVersions }
SandboxVersions == { <<StampTokens[n]>> : n \in 1..NumVersions }

VersionsOf(k) == IF k = "image" THEN ImageVersions ELSE SandboxVersions

\* f"scitex-v{version}.sif"
ImageName(version) == <<"scitex-v">> \o version \o <<".sif">>

\* f"sandbox-{version}"
SandboxName(version) == <<"sandbox-">> \o version

TargetName(k, version) == IF k = "image" THEN ImageName(version) ELSE SandboxName(version)

\* containers_dir / "current.sif", containers_dir / "current-sandbox"
LinkName(k) == IF k = "image" THEN <<"current.sif">> ELSE <<"current-sandbox">>

\* containers_dir / f".current.sif.tmp.{id(version)}"
TmpName(k, id) ==
    IF k = "image" THEN <<".current.sif.tmp.", id>> ELSE <<".current-sandbox.tmp.", id>>

\* the values id(version) may take: an object address, which two calls may share
Ids == {"a1", "a2"}

\* calls made one at a time: which address the string has changes nothing
SeqIds == {"a1"}

\* \d{8}_\d{6}
IsStamp(tok) == \E n \in 1..Len(StampTokens) : StampTokens[n] = tok

\* a pattern without the "v" right after "scitex-": ^scitex-.*v(.+)\.sif$
_parse_versionAnyPrefix(name) ==
    IF Len(name) >= 3 /\ name[1] \in {"scitex-v", "scitex-base-v"} /\ name[Len(name)] = ".sif"
    THEN SubSeq(name, 2, Len(name) - 1)
    ELSE None

\* _VERSION_RE = ^scitex-v(.+)\.sif$ ; group 1 or None
_parse_version(name) ==
    IF Len(name) >= 3 /\ name[1] = "scitex-v" /\ name[Len(name)] = ".sif"
    THEN SubSeq(name, 2, Len(name) - 1)
    ELSE None

\* a pattern that takes any suffix for a timestamp: ^sandbox-(.+)$
_parse_sandbox_versionAnySuffix(name) ==
    IF Len(name) >= 2 /\ name[1] = "sandbox-"
    THEN SubSeq(name, 2, Len(name))
    ELSE None

\* _SANDBOX_RE = ^sandbox-(\d{8}_\d{6})$ ; group 1 or None
_parse_sandbox_version(name) ==
    IF Len(name) = 2 /\ name[1] = "sandbox-" /\ IsStamp(name[2])
    THEN SubSeq(name, 2, 2)
    ELSE None

ParseOf(k, name) == IF k = "image" THEN _parse_version(name) ELSE _parse_sandbox_version(name)

\* ---- the directory ----
\* a function without the key n
Without(f, n) == [x \in (DOMAIN f) \ {n} |-> f[x]]

\* a function with the key n set to v
With(f, n, v) == [x \in (DOMAIN f) \cup {n} |-> IF x = n THEN v ELSE f[x]]

\* Path.resolve(): follow symlinks until a name that is not a symlink
RECURSIVE Resolve(_, _, _)
Resolve(links, name, fuel) ==
    IF name \in DOMAIN links /\ fuel > 0
    THEN Resolve(links, links[name].target, fuel - 1)
    ELSE name

ResolveName(links, name) == Resolve(links, name, Cardinality(DOMAIN links))

\* an existence test that never fails
ExistsAlways(files, links, name) == TRUE

\* Path.exists(): follows symlinks, any file type
Exists(files, links, name) == ResolveName(links, name) \in DOMAIN files

\* Path.is_dir(): follows symlinks
IsDir(files, links, name) ==
    LET r == ResolveName(links, name) IN r \in DOMAIN files /\ files[r].type = "dir"

\* Path.is_file(): follows symlinks
IsFile(files, links, name) ==
    LET r == ResolveName(links, name) IN r \in DOMAIN files /\ files[r].type = "file"

\* Path.is_symlink()
IsSymlink(links, name) == name \in DOMAIN links

\* the position of a version string in the enumeration of the directory
TokenIndex(tok) ==
    CHOOSE i \in 1..Len(VersionTokens) : tok \in {VersionTokens[i], StampTokens[i]}

\* the order in which the directory is enumerated (glob / iterdir): fixed for
\* an unchanged set of names; list.sort is stable, so it breaks mtime ties
GlobBefore(a, b) == TokenIndex(a[2]) < TokenIndex(b[2])

\* the sort without reverse=True: oldest first
RECURSIVE SortOldestFirst(_, _)
SortOldestFirst(S, files) ==
    IF S = {} THEN << >>
    ELSE LET first == CHOOSE a \in S : \A b \in S \ {a} :
                          \/ files[a].mtime < files[b].mtime
                          \/ files[a].mtime = files[b].mtime /\ GlobBefore(a, b)
         IN <<first>> \o SortOldestFirst(S \ {first}, files)

\* sifs.sort(key=lambda p: p.stat().st_mtime, reverse=True)
RECURSIVE SortNewestFirst(_, _)
SortNewestFirst(S, files) ==
    IF S = {} THEN << >>
    ELSE LET first == CHOOSE a \in S : \A b \in S \ {a} :
                          \/ files[a].mtime > files[b].mtime
                          \/ files[a].mtime = files[b].mtime /\ GlobBefore(a, b)
         IN <<first>> \o SortNewestFirst(S \ {first}, files)

\* the list comprehension without "and p.is_file()"
_versioned_sifsAnyType(files, links) ==
    SortNewestFirst({ p \in DOMAIN files \cup DOMAIN links : _parse_version(p) # None }, files)

\* _versioned_sifs(containers_dir)
_versioned_sifs(files, links) ==
    SortNewestFirst({ p \in DOMAIN files \cup DOMAIN links :
                        /\ _parse_version(p) # None
                        /\ IsFile(files, links, p) }, files)

\* _versioned_sandboxes(containers_dir)
_versioned_sandboxes(files, links) ==
    SortNewestFirst({ p \in DOMAIN files \cup DOMAIN links :
                        /\ IsDir(files, links, p)
                        /\ _parse_sandbox_version(p) # None }, files)

CatalogOf(k, files, links) ==
    IF k = "image" THEN _versioned_sifs(files, links) ELSE _versioned_sandboxes(files, links)

\* get_active_version(containers_dir)
get_active_version(links) ==
    IF ~IsSymlink(links, LinkName("image")) THEN None
    ELSE _parse_version(ResolveName(links, LinkName("image")))

\* the lookup that returns the link's target without parsing it
get_active_sandboxRawTarget(links) ==
    IF ~IsSymlink(links, LinkName("sandbox")) THEN None
    ELSE links[LinkName("sandbox")].target

\* get_active_sandbox(containers_dir)
get_active_sandbox(links) ==
    IF ~IsSymlink(links, LinkName("sandbox")) THEN None
    ELSE _parse_sandbox_version(links[LinkName("sandbox")].target)

ActiveOf(k, links) == IF k = "image" THEN get_active_version(links) ELSE get_active_sandbox(links)

\* ---- the external commands ----
\* subprocess.run([...], check=True): "ok" exit status 0, "nonzero" raises
\* CalledProcessError, "spawn" raises OSError because the program (ln, mv or
\* sudo) cannot be executed
CmdOutcomes == {"ok", "nonzero", "spawn"}

\* tmp_link.unlink(missing_ok=True) runs in the calling process, without sudo:
\* "fail" raises PermissionError
UnlinkOutcomes == {"ok", "fail"}

\* the outcomes of one call; mv runs only after ln exited with 0, and unlink
\* only after one of the two exited non-zero
Envs ==
    { e \in [ln : CmdOutcomes, mv : CmdOutcomes, unlink : UnlinkOutcomes] :
        /\ e.ln # "ok" => e.mv = "ok"
        /\ (e.ln # "nonzero" /\ e.mv # "nonzero") => e.unlink = "ok" }

\* the outcomes a call with this use_sudo can meet: the link the calling
\* process cannot remove is one that sudo ln created
EnvsOf(use_sudo) == { e \in Envs : e.unlink = "fail" => use_sudo }

\* ln -s without -f: an existing tmp_link is left as it is
LnKeepExisting(links, tmp, target) ==
    IF tmp \in DOMAIN links THEN links ELSE With(links, tmp, [target |-> target])

\* ln -sf / ln -sfn target_name tmp_link: replaces an existing tmp_link
Ln(links, tmp, target) == With(links, tmp, [target |-> target])

\* mv -Tf tmp_link link_path is rename(2): it needs the source, and a symlink
\* cannot replace a directory
CanRename(files, links, src, dst) ==
    /\ src \in DOMAIN links
    /\ ~(dst \in DOMAIN files /\ files[dst].type = "dir")

\* mv without -f semantics: an existing destination is kept
RenameLinksNoClobber(links, src, dst) ==
    IF dst \in DOMAIN links THEN Without(links, src)
    ELSE With(Without(links, src), dst, links[src])

\* a replacement that starts by removing the destination and stops there
RenameLinksUnlinkOnly(links, src, dst) == Without(links, dst)

RenameLinks(links, src, dst) == With(Without(links, src), dst, links[src])

RenameFiles(files, dst) == Without(files, dst)

\* the except branch of switch: tmp_link.unlink(missing_ok=True), then
\* raise RuntimeError; the call is not made with sudo, so a link made by
\* sudo ln may not be removable
SwitchHandler(files, links, tmp, use_sudo, env) ==
    IF tmp \in DOMAIN links /\ use_sudo /\ env.unlink = "fail"
    THEN [files |-> files, links |-> links, result |-> "UnlinkError"]
    ELSE [files |-> files, links |-> Without(links, tmp), result |-> "SwitchFailed"]

\* the try block of switch_version / switch_sandbox
SwitchCommands(k, files, links, target, tmp, use_sudo, env) ==
    IF env.ln = "spawn"
    THEN [files |-> files, links |-> links, result |-> "SpawnError"]
    ELSE IF env.ln = "nonzero"
    THEN SwitchHandler(files, links, tmp, use_sudo, env)
    ELSE LET links1 == Ln(links, tmp, target) IN
         IF env.mv = "spawn"
         THEN [files |-> files, links |-> links1, result |-> "SpawnError"]
         ELSE IF env.mv = "nonzero" \/ ~CanRename(files, links1, tmp, LinkName(k))
         THEN SwitchHandler(files, links1, tmp, use_sudo, env)
         ELSE [files |-> RenameFiles(files, LinkName(k)),
               links |-> RenameLinks(links1, tmp, LinkName(k)),
               result |-> "ok"]

\* switch_version(version, containers_dir, use_sudo)
switch_version(files, links, version, use_sudo, id, env) ==
    IF ~Exists(files, links, ImageName(version))
    THEN [files |-> files, links |-> links, result |-> "NotFound"]
    ELSE SwitchCommands("image", files, links, ImageName(version),
                        TmpName("image", id), use_sudo, env)

\* switch_sandbox(version, containers_dir, use_sudo)
switch_sandbox(files, links, version, use_sudo, id, env) ==
    IF ~IsDir(files, links, SandboxName(version))
    THEN [files |-> files, links |-> links, result |-> "NotFound"]
    ELSE SwitchCommands("sandbox", files, links, SandboxName(version),
                        TmpName("sandbox", id), use_sudo, env)

SwitchOf(k, files, links, version, use_sudo, id, env) ==
    IF k = "image" THEN switch_version(files, links, version, use_sudo, id, env)
    ELSE switch_sandbox(files, links, version, use_sudo, id, env)

\* an index search that answers the first position when active is missing
IndexOfOrFirst(versions, active) ==
    IF \E i \in 1..Len(versions) : versions[i] = active
    THEN CHOOSE i \in 1..Len(versions) :
            /\ versions[i] = active
            /\ \A j \in 1..(i - 1) : versions[j] # active
    ELSE 1

\* versions.index(active): the first position of active, 0 for ValueError
IndexOf(versions, active) ==
    IF \E i \in 1..Len(versions) : versions[i] = active
    THEN CHOOSE i \in 1..Len(versions) :
            /\ versions[i] = active
            /\ \A j \in 1..(i - 1) : versions[j] # active
    ELSE 0

\* [_parse_version(s) for s in sifs]
VersionsIn(k, sifs) == [i \in 1..Len(sifs) |-> ParseOf(k, sifs[i])]

\* a rollback that toggles: back to the newer neighbour when there is one
RollbackFromToggle(k, files, links, active, versions, idx, use_sudo, id, env) ==
    IF active = None
    THEN [files |-> files, links |-> links, result |-> "NoActive", ret |-> None]
    ELSE IF idx = 0
    THEN [files |-> files, links |-> links, result |-> "NotInDirectory", ret |-> None]
    ELSE IF idx = 1 /\ idx + 1 > Len(versions)
    THEN [files |-> files, links |-> links, result |-> "NoOlder", ret |-> None]
    ELSE LET to == IF idx > 1 THEN idx - 1 ELSE idx + 1
             sw == SwitchOf(k, files, links, versions[to], use_sudo, id, env)
         IN [files |-> sw.files, links |-> sw.links, result |-> sw.result,
             ret |-> IF sw.result = "ok" THEN versions[to] ELSE None]

\* rollback / rollback_sandbox once active and versions are computed: result
\* "NoActive", "NotInDirectory" and "NoOlder" are the three RuntimeErrors raised
\* before the switch; ret is the returned version
RollbackFrom(k, files, links, active, versions, idx, use_sudo, id, env) ==
    IF active = None
    THEN [files |-> files, links |-> links, result |-> "NoActive", ret |-> None]
    ELSE IF idx = 0
    THEN [files |-> files, links |-> links, result |-> "NotInDirectory", ret |-> None]
    ELSE IF idx + 1 > Len(versions)
    THEN [files |-> files, links |-> links, result |-> "NoOlder", ret |-> None]
    ELSE LET sw == SwitchOf(k, files, links, versions[idx + 1], use_sudo, id, env)
         IN [files |-> sw.files, links |-> sw.links, result |-> sw.result,
             ret |-> IF sw.result = "ok" THEN versions[idx + 1] ELSE None]

\* rollback(containers_dir, use_sudo) / rollback_sandbox(containers_dir, use_sudo)
RollbackOf(k, files, links, use_sudo, id, env) ==
    LET active == ActiveOf(k, links)
        versions == VersionsIn(k, CatalogOf(k, files, links))
    IN  RollbackFrom(k, files, links, active, versions, IndexOf(versions, active),
                     use_sudo, id, env)

rollback(files, links, use_sudo, id, env) == RollbackOf("image", files, links, use_sudo, id, env)

rollback_sandbox(files, links, use_sudo, id, env) ==
    RollbackOf("sandbox", files, links, use_sudo, id, env)

\* a test that protects nothing
IsProtectedNever(k, name, active) == FALSE

\* the test that protects the active artifact: cleanup compares the file name
\* with f"scitex-v{active}.sif", cleanup_sandboxes the parsed version with active
IsProtected(k, name, active) ==
    IF k = "image" THEN active # None /\ name = ImageName(active)
    ELSE _parse_sandbox_version(name) = active

\* kept <= keep: one artifact too many is retained
WithinBudgetOffByOne(kept, keep) == kept <= keep

\* if kept < keep
WithinBudget(kept, keep) == kept < keep

\* the for loop of cleanup / cleanup_sandboxes from position i on; the
\* failAt-th removal (sif.unlink() / shutil.rmtree(sb)) raises OSError
RECURSIVE CleanupLoop(_, _, _, _, _, _, _, _, _)
CleanupLoop(k, sifs, i, kept, keep, active, files, removed, failAt) ==
    IF i > Len(sifs) THEN [files |-> files, removed |-> removed, result |-> "ok"]
    ELSE IF ParseOf(k, sifs[i]) = None
    THEN CleanupLoop(k, sifs, i + 1, kept, keep, active, files, removed, failAt)
    ELSE IF IsProtected(k, sifs[i], active)
    THEN CleanupLoop(k, sifs, i + 1, kept, keep, active, files, removed, failAt)
    ELSE IF WithinBudget(kept, keep)
    THEN CleanupLoop(k, sifs, i + 1, kept + 1, keep, active, files, removed, failAt)
    ELSE IF Len(removed) + 1 = failAt
    THEN [files |-> files, removed |-> removed, result |-> "RemoveError"]
    ELSE CleanupLoop(k, sifs, i + 1, kept, keep, active,
                     Without(files, sifs[i]), Append(removed, sifs[i]), failAt)

\* cleanup(containers_dir, keep) / cleanup_sandboxes(containers_dir, keep)
CleanupOf(k, files, links, keep, failAt) ==
    CleanupLoop(k, CatalogOf(k, files, links), 1, 0, keep, ActiveOf(k, links),
                files, << >>, failAt)

cleanup(files, links, keep, failAt) == CleanupOf("image", files, links, keep, failAt)

cleanup_sandboxes(files, links, keep, failAt) == CleanupOf("sandbox", files, links, keep, failAt)

\* ---- the other *.sif files of an image directory ----
\* _BASE_RE = ^scitex-base-v(\d+)\.sif$
BaseName(n) == <<"scitex-base-v", n, ".sif">>

BaseNames == { BaseName("1"), BaseName("2") }

\* a SIF file outside both patterns, and the leftovers "*.sif.old" and
\* "*.sif.backup.*"
StrayName == <<"scitex", ".sif">>

OldName == <<"scitex-v", "1", ".sif", ".old">>

BackupName == <<"scitex-v", "1", ".sif", ".backup.", "20260101">>

ExtraNames == BaseNames \cup {StrayName, OldName, BackupName}

\* containers_dir.glob("*.sif.old"), containers_dir.glob("*.sif.backup.*")
MatchesOldOrBackup(name) ==
    \/ Len(name) >= 2 /\ name[Len(name)] = ".old" /\ name[Len(name) - 1] = ".sif"
    \/ \E i \in 1..(Len(name) - 2) : name[i] = ".sif" /\ name[i + 1] = ".backup."

\* containers_dir.glob("*.sif"): the name ends in ".sif"
MatchesSif(name) == name[Len(name)] \in {".sif", "current.sif"}

\* the order in which a glob yields the names of a set: versioned names by
\* their position in the enumeration, the other names after them in the
\* order of GlobRank
GlobRank(name) ==
    IF name = BaseName("1") THEN 1
    ELSE IF name = BaseName("2") THEN 2
    ELSE IF name = StrayName THEN 3
    ELSE IF name = OldName THEN 4
    ELSE IF name = BackupName THEN 5
    ELSE 6

RECURSIVE GlobOrder(_)
GlobOrder(S) ==
    IF S = {} THEN << >>
    ELSE LET first == CHOOSE a \in S : \A b \in S \ {a} : GlobRank(a) <= GlobRank(b)
         IN <<first>> \o GlobOrder(S \ {first})

\* a file or link removed by Path.unlink()
Unlink(d, name) ==
    [files |-> IF name \in DOMAIN d.files THEN Without(d.files, name) ELSE d.files,
     links |-> IF name \in DOMAIN d.links THEN Without(d.links, name) ELSE d.links]

\* one loop of cleanup_sifs over the names todo, each removed if test holds
\* when its turn comes; the failAt-th unlink of the call raises OSError
RECURSIVE PurgeLoop(_, _, _, _, _, _)
PurgeLoop(step, todo, i, d, removed, failAt) ==
    IF i > Len(todo) THEN [files |-> d.files, links |-> d.links, removed |-> removed, result |-> "ok"]
    ELSE IF ~( \/ step = "versioned"
               \/ step = "oldbackup" /\ IsFile(d.files, d.links, todo[i])
               \/ step = "nonversioned" /\ IsFile(d.files, d.links, todo[i])
                                        /\ _parse_version(todo[i]) = None
               \/ step = "pointer" /\ IsSymlink(d.links, todo[i]) )
    THEN PurgeLoop(step, todo, i + 1, d, removed, failAt)
    ELSE IF Len(removed) + 1 = failAt
    THEN [files |-> d.files, links |-> d.links, removed |-> removed, result |-> "RemoveError"]
    ELSE PurgeLoop(step, todo, i + 1, Unlink(d, todo[i]), Append(removed, todo[i]), failAt)

\* for i, sif in enumerate(sifs): if i < keep: continue
BeyondKeep(sifs, keep) ==
    IF keep >= Len(sifs) THEN << >> ELSE SubSeq(sifs, keep + 1, Len(sifs))

\* cleanup_sifs(containers_dir, keep)
cleanup_sifs(files, links, keep, failAt) ==
    LET names0 == DOMAIN files \cup DOMAIN links
        s1 == PurgeLoop("oldbackup", GlobOrder({ n \in names0 : MatchesOldOrBackup(n) }), 1,
                        [files |-> files, links |-> links], << >>, failAt)
    IN  IF s1.result # "ok" THEN s1
        ELSE LET s2 == PurgeLoop("versioned",
                                 BeyondKeep(_versioned_sifs(s1.files, s1.links), keep), 1,
                                 [files |-> s1.files, links |-> s1.links], s1.removed, failAt)
             IN IF s2.result # "ok" THEN s2
                ELSE LET names2 == DOMAIN s2.files \cup DOMAIN s2.links
                         s3 == PurgeLoop("nonversioned",
                                         GlobOrder({ n \in names2 : MatchesSif(n) }), 1,
                                         [files |-> s2.files, links |-> s2.links],
                                         s2.removed, failAt)
                     IN IF s3.result # "ok" THEN s3
                        ELSE PurgeLoop("pointer", <<LinkName("image")>>, 1,
                                       [files |-> s3.files, links |-> s3.links],
                                       s3.removed, failAt)

\* ---- queries ----
\* datetime.fromtimestamp(st_mtime).strftime("%Y-%m-%d %H:%M"): the seconds
\* are dropped, two modification times of one minute give one string
DateOf(mtime) == (mtime + 1) \div 2

\* the result rows of list_versions / list_sandboxes for the catalog sifs
ListRows(k, sifs, files, active) ==
    SelectSeq([i \in 1..Len(sifs) |->
                  [version |-> ParseOf(k, sifs[i]),
                   path |-> sifs[i],
                   date |-> DateOf(files[sifs[i]].mtime),
                   active |-> ParseOf(k, sifs[i]) = active]],
              LAMBDA row : row.version # None)

\* what a path below containers_dir finds when the directory is missing
Seen(present, f) == IF present THEN f ELSE << >>

\* list_versions(containers_dir): glob on a missing directory yields nothing
list_versions(present, files, links) ==
    [result |-> "ok",
     ret |-> ListRows("image", _versioned_sifs(Seen(present, files), Seen(present, links)),
                      files, get_active_version(Seen(present, links)))]

\* list_sandboxes(containers_dir): iterdir on a missing directory raises
\* FileNotFoundError
list_sandboxes(present, files, links) ==
    IF ~present THEN [result |-> "NotFound", ret |-> << >>]
    ELSE [result |-> "ok",
          ret |-> ListRows("sandbox", _versioned_sandboxes(files, links), files,
                           get_active_sandbox(links))]

\* ---- verify ----
\* hash_file = sif_path.parent / ".def-hash", and the lock files
DefHashName == <<".def-hash">>

PipLockName == <<"requirements-lock.txt">>

DpkgLockName == <<"dpkg-lock.txt">>

NodeLockName == <<"node-lock.txt">>

\* A text is the sequence of its pieces between line breaks: "a\nb\n" is
\* <<"a", "b", "">>, the empty text is << >>.
\* str.strip(): without the blank pieces at both ends
RECURSIVE Strip(_)
Strip(text) ==
    IF text = << >> THEN << >>
    ELSE IF text[1] = "" THEN Strip(Tail(text))
    ELSE IF text[Len(text)] = "" THEN Strip(SubSeq(text, 1, Len(text) - 1))
    ELSE text

\* set(text.strip().splitlines())
LineSet(text) == LET t == Strip(text) IN { t[i] : i \in 1..Len(t) }

\* hashlib.sha256 of a definition file: distinct contents, distinct digests
_hash_file(content) == <<"sha256", content>>

\* hash_file.write_text(current_hash + "\n")
HashFileText(hash) == hash \o <<"">>

\* a count of the stored lines that are missing only
LockDiffMissingOnly(current, stored) == Cardinality(stored \ current)

\* diff_count = len(added) + len(removed)
LockDiff(current, stored) == Cardinality(current \ stored) + Cardinality(stored \ current)

\* the body shared by _verify_pip_lock and _verify_dpkg_lock; proc is the
\* outcome of subprocess.run(..., timeout=60): "exit0" with its stdout,
\* "nonzero", "timeout" (TimeoutExpired) or "error" (any other exception,
\* raised by the run or by reading the lock file)
CompareLock(proc, lock_text) ==
    IF proc.outcome \in {"timeout", "error", "nonzero"}
    THEN [status |-> "fail", diff_count |-> -1]
    ELSE LET diff_count == LockDiff(LineSet(proc.stdout), LineSet(lock_text)) IN
         IF diff_count = 0 THEN [status |-> "pass", diff_count |-> 0]
         ELSE [status |-> "fail", diff_count |-> diff_count]

_verify_pip_lock(proc, lock_text) == CompareLock(proc, lock_text)

_verify_dpkg_lock(proc, lock_text) == CompareLock(proc, lock_text)

\* a report that fails on every check that did not pass
FailIfNotPass(overall, status) == IF status # "pass" THEN "fail" ELSE overall

\* if result[...]["status"] == "fail": result["overall"] = "fail"
FailIf(overall, status) == IF status = "fail" THEN "fail" ELSE overall

\* check 2 of verify: the .def origin
DefOrigin(defs, sidecar, def) ==
    IF def = None THEN "skip"
    ELSE IF def \notin DOMAIN defs THEN "fail"
    ELSE IF DefHashName \notin DOMAIN sidecar THEN "fail"
    ELSE IF _hash_file(defs[def]) = Strip(sidecar[DefHashName]) THEN "pass"
    ELSE "fail"

\* verify(sif_path, def_path, lock_dir): files, defs, sidecar are the
\* directory of the SIF, locks the lock files of the lock directory
verify(files, links, defs, sidecar, locks, sif, def, cmd_found, pip_proc, dpkg_proc) ==
    IF ~Exists(files, links, sif)
    THEN [sif |-> [exists |-> FALSE, sha256 |-> None],
          def_origin |-> [status |-> "skip"],
          pip_lock |-> [status |-> "skip"],
          dpkg_lock |-> [status |-> "skip"],
          overall |-> "fail"]
    ELSE LET def_origin == DefOrigin(defs, sidecar, def)
             pip_lock == IF cmd_found /\ PipLockName \in DOMAIN locks
                         THEN _verify_pip_lock(pip_proc, locks[PipLockName])
                         ELSE [status |-> "skip"]
             dpkg_lock == IF cmd_found /\ DpkgLockName \in DOMAIN locks
                          THEN _verify_dpkg_lock(dpkg_proc, locks[DpkgLockName])
                          ELSE [status |-> "skip"]
         IN [sif |-> [exists |-> TRUE, sha256 |-> <<"sha256", ResolveName(links, sif)>>],
             def_origin |-> [status |-> def_origin],
             pip_lock |-> pip_lock,
             dpkg_lock |-> dpkg_lock,
             overall |-> FailIf(FailIf(FailIf("pass", def_origin), pip_lock.status),
                                dpkg_lock.status)]

\* a verify that records the hash of the definition it was given
VerifyWritesHash(defs, sidecar, def) ==
    IF def \in DOMAIN defs
    THEN With(sidecar, DefHashName, HashFileText(_hash_file(defs[def])))
    ELSE sidecar

\* what a verify call leaves in the directory of the SIF: _hash_file opens
\* with "rb", the hash record and the lock files are read with read_text,
\* and nothing is written
VerifyWrites(defs, sidecar, def) == sidecar

\* ---- status ----
\* an entry that asks for a rebuild only when the image is missing
StatusEntryByImage(files, links, defs, sidecar, name) ==
    [name |-> name,
     sif_path |-> IF Exists(files, links, name \o <<".sif">>) THEN name \o <<".sif">> ELSE None,
     hash_current |-> _hash_file(defs[name]),
     hash_stored |-> None,
     needs_rebuild |-> ~Exists(files, links, name \o <<".sif">>)]

\* the entry of status(containers_dir) for one definition file; sif_size and
\* sif_date are left out
StatusEntry(files, links, defs, sidecar, name) ==
    LET sif_path == name \o <<".sif">>
        current_hash == _hash_file(defs[name])
        \* stored_hash = "" unless hash_file.exists(); the empty text is << >>
        stored_hash == IF DefHashName \in DOMAIN sidecar THEN Strip(sidecar[DefHashName])
                       ELSE << >>
    IN [name |-> name,
        sif_path |-> IF Exists(files, links, sif_path) THEN sif_path ELSE None,
        hash_current |-> current_hash,
        hash_stored |-> IF stored_hash = << >> THEN None ELSE stored_hash,
        needs_rebuild |-> IF Exists(files, links, sif_path) THEN current_hash # stored_hash
                          ELSE TRUE]

\* status(containers_dir): one entry for each *.def of the directory, here
\* by the name of the definition and not in the sorted order of the list
status(files, links, defs, sidecar) ==
    [name \in DOMAIN defs |-> StatusEntry(files, links, defs, sidecar, name)]

\* ---- build and sandbox creation ----
\* the modification time of what is written now: later than all there is
Now(files) ==
    LET used == { files[n].mtime : n \in DOMAIN files } IN
    IF used = {} THEN 1 ELSE 1 + CHOOSE m \in used : \A x \in used : x <= m

\* the outcomes of the three commands of freeze: exit status 0 with the
\* printed text, or non-zero
FreezeOutcomes ==
    LET ok == [outcome |-> "exit0", stdout |-> <<"a==1", "">>]
        bad == [outcome |-> "nonzero", stdout |-> << >>]
    IN { [pip |-> ok, dpkg |-> ok, node |-> ok],
         [pip |-> bad, dpkg |-> ok, node |-> bad] }

\* one command of freeze: if result.returncode == 0: lock.write_text(stdout)
WriteLock(sidecar, name, proc) ==
    IF proc.outcome = "exit0" THEN With(sidecar, name, proc.stdout) ELSE sidecar

\* freeze(sif_path, output_dir) as build calls it, on the SIF just built
freeze(sidecar, out) ==
    WriteLock(WriteLock(WriteLock(sidecar, PipLockName, out.pip), DpkgLockName, out.dpkg),
              NodeLockName, out.node)

\* output_path and hash_file of build
BuildOutput(def_name, sandbox) ==
    IF sandbox THEN def_name \o <<"-sandbox">> ELSE def_name \o <<".sif">>

BuildHashName(def_name, sandbox) ==
    IF sandbox THEN <<".">> \o def_name \o <<"-sandbox-hash">> ELSE DefHashName

\* build(def_name, output_dir, force, sandbox) with the output in the
\* directory of the definition; build_out is the exit status of the builder,
\* which leaves the directory as it was when it fails
build(files, links, defs, sidecar, def_name, force, sandbox, cmd_found, build_out, freeze_out) ==
    LET output_path == BuildOutput(def_name, sandbox)
        hash_file == BuildHashName(def_name, sandbox)
    IN  IF ~cmd_found \/ def_name \notin DOMAIN defs
        THEN [files |-> files, sidecar |-> sidecar, ret |-> None, ran |-> FALSE,
              result |-> "NotFound"]
        ELSE LET current_hash == _hash_file(defs[def_name]) IN
             IF /\ ~force
                /\ Exists(files, links, output_path)
                /\ hash_file \in DOMAIN sidecar
                /\ current_hash = Strip(sidecar[hash_file])
             THEN [files |-> files, sidecar |-> sidecar, ret |-> output_path, ran |-> FALSE,
                   result |-> "ok"]
             ELSE IF build_out # "ok"
             THEN [files |-> files, sidecar |-> sidecar, ret |-> None, ran |-> TRUE,
                   result |-> "BuildFailed"]
             ELSE LET hashed == With(sidecar, hash_file, HashFileText(current_hash)) IN
                  [files |-> With(files, output_path,
                                  [type |-> IF sandbox THEN "dir" ELSE "file",
                                   mtime |-> Now(files)]),
                   sidecar |-> IF sandbox THEN hashed ELSE freeze(hashed, freeze_out),
                   ret |-> output_path, ran |-> TRUE, result |-> "ok"]

\* an update that stops after ln: the temporary link is never renamed
_update_sandbox_symlinkLnOnly(files, links, target_name, id, env) ==
    [files |-> files, links |-> Ln(links, TmpName("sandbox", id), target_name), result |-> "ok"]

\* _update_sandbox_symlink(containers_dir, sandbox_dir): the commands of a
\* switch without sudo; the except branch raises the CalledProcessError again
_update_sandbox_symlink(files, links, target_name, id, env) ==
    LET r == SwitchCommands("sandbox", files, links, target_name, TmpName("sandbox", id),
                            FALSE, env)
    IN  [files |-> r.files, links |-> r.links,
         result |-> IF r.result = "SwitchFailed" THEN "CalledProcessError" ELSE r.result]

\* a path is a name of containers_dir, or "../" and a name: a directory of
\* that name somewhere else
InParent(path) == path[1] # "../"

\* Path.name
BaseOf(path) == IF InParent(path) THEN path ELSE Tail(path)

\* create(source, containers_dir, output_dir): sandbox_dir is the given
\* output directory or containers_dir / sandbox-{timestamp}; the link gets
\* sandbox_dir.name.  configure_ps1 writes below the new directory only.
create(files, links, defs, source, sandbox_dir, cmd_found, build_out, id, env) ==
    IF source \notin DOMAIN defs \/ ~cmd_found
    THEN [files |-> files, links |-> links, result |-> "NotFound", ret |-> None]
    ELSE IF build_out # "ok"
    THEN [files |-> files, links |-> links, result |-> "BuildFailed", ret |-> None]
    ELSE LET built == IF InParent(sandbox_dir)
                      THEN With(files, sandbox_dir, [type |-> "dir", mtime |-> Now(files)])
                      ELSE files
             r == _update_sandbox_symlink(built, links, BaseOf(sandbox_dir), id, env)
         IN [files |-> r.files, links |-> r.links, result |-> r.result,
             ret |-> IF r.result = "ok" THEN sandbox_dir ELSE None]

\* ---- deploy ----
\* the outcomes of sudo mkdir -p, of the two sudo cp, and of the commands of
\* the switch that ends a deploy
DeployEnvs ==
    { e \in [mkdir : {"ok", "nonzero"}, cp_active : {"ok", "nonzero"},
              cp_base : {"ok", "nonzero"}, sw : EnvsOf(TRUE)] :
        /\ e.mkdir # "ok" => e.cp_active = "ok"
        /\ (e.mkdir # "ok" \/ e.cp_active # "ok") => e.cp_base = "ok"
        /\ (e.mkdir # "ok" \/ e.cp_active # "ok" \/ e.cp_base # "ok")
             => e.sw = [ln |-> "ok", mv |-> "ok", unlink |-> "ok"] }

\* sudo cp source target_dir/name: a regular file of that name written now,
\* through a link of that name if there is one
Cp(tfiles, tlinks, name) ==
    With(tfiles, ResolveName(tlinks, name), [type |-> "file", mtime |-> Now(tfiles)])

\* deploy(source_dir, target_dir): files and links are the source directory,
\* t the target directory
deploy(files, links, t, id, env) ==
    LET active == get_active_version(links) IN
    IF active = None THEN [target |-> t, result |-> "NoActive"]
    ELSE IF ~Exists(files, links, ImageName(active)) THEN [target |-> t, result |-> "NotFound"]
    ELSE LET base_sifs == SortNewestFirst({ n \in BaseNames : IsFile(files, links, n) }, files)
         IN
         IF env.mkdir # "ok" THEN [target |-> t, result |-> "CalledProcessError"]
         ELSE LET t1 == [t EXCEPT !.present = TRUE] IN
         IF env.cp_active # "ok" THEN [target |-> t1, result |-> "CalledProcessError"]
         ELSE LET t2 == [t1 EXCEPT !.files = Cp(t1.files, t1.links, ImageName(active))] IN
         IF base_sifs # << >> /\ env.cp_base # "ok"
         THEN [target |-> t2, result |-> "CalledProcessError"]
         ELSE LET t3 == IF base_sifs = << >> THEN t2
                        ELSE [t2 EXCEPT !.files = Cp(t2.files, t2.links, base_sifs[1])]
                  r == switch_version(t3.files, t3.links, active, TRUE, id, env.sw)
              IN [target |-> [t3 EXCEPT !.files = r.files, !.links = r.links],
                  result |-> r.result]

\* the exception a deploy ends with
DeployRaises(result) ==
    CASE result = "ok" -> "none"
      [] result \in {"NoActive", "SwitchFailed"} -> "RuntimeError"
      [] result = "NotFound" -> "FileNotFoundError"
      [] result = "CalledProcessError" -> "CalledProcessError"
      [] result = "UnlinkError" -> "PermissionError"
      [] OTHER -> "OSError"

\* ---- state ----
VARIABLES
    kind,     \* which artifacts the directory holds: images or sandboxes
    files,    \* name -> [type, mtime] of the regular files and directories
    links,    \* name -> [target] of the symbolic links
    last,     \* the last completed call: its arguments and its outcome
    sw,       \* concurrent switch calls: process -> [pc, version, id, result]
    rd,       \* a concurrent active-version lookup: [pc, result]
    renamed,  \* the last rename over the pointer name: [by, installed]
    links0,   \* the links when the concurrent calls started
    defs,     \* definition name -> content of the file {name}.def
    sidecar,  \* name -> text of the hash and lock files of the directory
    res,      \* the last completed query: its arguments and what it returned
    target_dir,  \* the deployment target directory: [present, files, links]
    cl        \* a concurrent cleanup call: [pc, keep, active, todo, kept, result]

vars == <<kind, files, links, last, sw, rd, renamed, links0, defs, sidecar, res, target_dir, cl>>

concvars == <<sw, rd, renamed, links0>>

sidevars == <<defs, sidecar, res, target_dir, cl>>

NoRes == [op |-> "none"]

\* no definition, hash or lock file, and no query made
\* no cleanup call is running
IdleCleanup == [pc |-> "idle", keep |-> 0, active |-> None, todo |-> << >>, kept |-> 0,
                result |-> "none"]

\* no deployment target: the directory does not exist
NoTarget == [present |-> FALSE, files |-> << >>, links |-> << >>]

IdleSide ==
    /\ defs = << >>
    /\ sidecar = << >>
    /\ res = NoRes
    /\ target_dir = NoTarget
    /\ cl = IdleCleanup

Procs == {"p1", "p2"}

IdleCall == [pc |-> "idle", version |-> None, id |-> "", result |-> "none"]

IdleConc ==
    /\ sw = [p \in Procs |-> IdleCall]
    /\ rd = [pc |-> "idle", result |-> None]
    /\ renamed = [by |-> "", installed |-> None]

NoCall ==
    [op |-> "none", version |-> None, keep |-> 0, result |-> "none", ret |-> None]

ArtifactType(k) == IF k = "image" THEN "file" ELSE "dir"

ArtifactNames(k) == { TargetName(k, v) : v \in VersionsOf(k) }

\* The code only compares modification times and never compares version
\* strings, so a directory is taken up to a renaming of its versions: the
\* times in use are numbered from 1 without gaps, and a version enumerated
\* later is not older.  Every order and every tie of the catalog remains, and
\* the active pointer may name any position of it.
DenseMtimes(fs) ==
    LET used == { fs[n].mtime : n \in DOMAIN fs } IN
    /\ used = 1..Cardinality(used)
    /\ \A a, b \in DOMAIN fs : GlobBefore(a, b) => fs[a].mtime <= fs[b].mtime

Init ==
    /\ kind \in Kinds
    /\ \E S \in SUBSET ArtifactNames(kind) :
           /\ files \in [S -> [type : {ArtifactType(kind)}, mtime : 1..MaxMtime]]
           /\ DenseMtimes(files)
    /\ \/ links = << >>
       \/ \E n \in ArtifactNames(kind) : links = [x \in {LinkName(kind)} |-> [target |-> n]]
    /\ last = NoCall
    /\ IdleConc
    /\ links0 = << >>
    /\ IdleSide

Called(op, version, keep, r, ret) ==
    [op |-> op, version |-> version, keep |-> keep, result |-> r, ret |-> ret]

\* ---- operations, one call at a time ----
SwitchVersion ==
    /\ kind = "image"
    /\ \E version \in ImageVersions, use_sudo \in BOOLEAN, id \in SeqIds :
         \E env \in EnvsOf(use_sudo) :
         \E r \in {switch_version(files, links, version, use_sudo, id, env)} :
         /\ files' = r.files
         /\ links' = r.links
         /\ last' = Called("switch", version, 0, r.result, None)
    /\ UNCHANGED <<kind, concvars, sidevars>>

SwitchSandbox ==
    /\ kind = "sandbox"
    /\ \E version \in SandboxVersions, use_sudo \in BOOLEAN, id \in SeqIds :
         \E env \in EnvsOf(use_sudo) :
         \E r \in {switch_sandbox(files, links, version, use_sudo, id, env)} :
         /\ files' = r.files
         /\ links' = r.links
         /\ last' = Called("switch", version, 0, r.result, None)
    /\ UNCHANGED <<kind, concvars, sidevars>>

Rollback ==
    /\ kind = "image"
    /\ \E use_sudo \in BOOLEAN, id \in SeqIds :
         \E env \in EnvsOf(use_sudo) :
         \E r \in {rollback(files, links, use_sudo, id, env)} :
         /\ files' = r.files
         /\ links' = r.links
         /\ last' = Called("rollback", None, 0, r.result, r.ret)
    /\ UNCHANGED <<kind, concvars, sidevars>>

RollbackSandbox ==
    /\ kind = "sandbox"
    /\ \E use_sudo \in BOOLEAN, id \in SeqIds :
         \E env \in EnvsOf(use_sudo) :
         \E r \in {rollback_sandbox(files, links, use_sudo, id, env)} :
         /\ files' = r.files
         /\ links' = r.links
         /\ last' = Called("rollback", None, 0, r.result, r.ret)
    /\ UNCHANGED <<kind, concvars, sidevars>>

Cleanup ==
    /\ kind = "image"
    /\ \E keep \in 0..MaxKeep, failAt \in 0..MaxFailAt :
         \E r \in {cleanup(files, links, keep, failAt)} :
         /\ files' = r.files
         /\ last' = Called("cleanup", None, keep, r.result,
                           IF r.result = "ok" THEN r.removed ELSE None)
    /\ UNCHANGED <<kind, links, concvars, sidevars>>

CleanupSandboxes ==
    /\ kind = "sandbox"
    /\ \E keep \in 0..MaxKeep, failAt \in 0..MaxFailAt :
         \E r \in {cleanup_sandboxes(files, links, keep, failAt)} :
         /\ files' = r.files
         /\ last' = Called("cleanup", None, keep, r.result,
                           IF r.result = "ok" THEN r.removed ELSE None)
    /\ UNCHANGED <<kind, links, concvars, sidevars>>

Next ==
    \/ SwitchVersion
    \/ SwitchSandbox
    \/ Rollback
    \/ RollbackSandbox
    \/ Cleanup
    \/ CleanupSandboxes

Spec == Init /\ [][Next]_vars

\* ---- concurrent calls on one directory ----
\* two switch calls and one lookup, each advancing one system call or one
\* external command at a time; the calls are made without sudo
InitConc ==
    /\ kind \in Kinds
    /\ files = [n \in ArtifactNames(kind) |-> [type |-> ArtifactType(kind), mtime |-> 1]]
    /\ \/ links = << >>
       \/ \E n \in ArtifactNames(kind) : links = [x \in {LinkName(kind)} |-> [target |-> n]]
    /\ last = NoCall
    /\ IdleConc
    /\ links0 = links
    /\ IdleSide

TargetExists(k, fs, ls, version) ==
    IF k = "image" THEN Exists(fs, ls, ImageName(version)) ELSE IsDir(fs, ls, SandboxName(version))

\* the call up to the existence test of its target
SwStart(p) ==
    /\ sw[p].pc = "idle"
    /\ \E version \in VersionsOf(kind), id \in Ids :
         sw' = [sw EXCEPT ![p] =
                  IF TargetExists(kind, files, links, version)
                  THEN [pc |-> "ln", version |-> version, id |-> id, result |-> "none"]
                  ELSE [pc |-> "done", version |-> version, id |-> id, result |-> "NotFound"]]
    /\ UNCHANGED <<kind, files, links, last, rd, renamed, links0, sidevars>>

\* subprocess.run(["ln", "-sf", target_name, tmp_link], check=True)
SwLn(p) ==
    /\ sw[p].pc = "ln"
    /\ \E out \in CmdOutcomes :
         /\ links' = IF out = "ok"
                     THEN Ln(links, TmpName(kind, sw[p].id), TargetName(kind, sw[p].version))
                     ELSE links
         /\ sw' = [sw EXCEPT ![p].pc = IF out = "ok" THEN "mv"
                                        ELSE IF out = "nonzero" THEN "except" ELSE "done",
                              ![p].result = IF out = "spawn" THEN "SpawnError" ELSE "none"]
    /\ UNCHANGED <<kind, files, last, rd, renamed, links0, sidevars>>

\* subprocess.run(["mv", "-Tf", tmp_link, link_path], check=True)
SwMv(p) ==
    /\ sw[p].pc = "mv"
    /\ \E out \in CmdOutcomes :
         /\ out = "ok" => CanRename(files, links, TmpName(kind, sw[p].id), LinkName(kind))
         /\ links' = IF out = "ok"
                     THEN RenameLinks(links, TmpName(kind, sw[p].id), LinkName(kind))
                     ELSE links
         /\ files' = IF out = "ok" THEN RenameFiles(files, LinkName(kind)) ELSE files
         /\ renamed' = IF out = "ok"
                       THEN [by |-> p, installed |-> links[TmpName(kind, sw[p].id)].target]
                       ELSE renamed
         /\ sw' = [sw EXCEPT ![p].pc = IF out = "nonzero" THEN "except" ELSE "done",
                              ![p].result = IF out = "ok" THEN "ok"
                                            ELSE IF out = "spawn" THEN "SpawnError" ELSE "none"]
    /\ UNCHANGED <<kind, last, rd, links0, sidevars>>

\* except subprocess.CalledProcessError: tmp_link.unlink(missing_ok=True); raise RuntimeError
SwExcept(p) ==
    /\ sw[p].pc = "except"
    /\ \E r \in {SwitchHandler(files, links, TmpName(kind, sw[p].id), FALSE,
                                [ln |-> "nonzero", mv |-> "ok", unlink |-> "ok"])} :
         /\ links' = r.links
         /\ sw' = [sw EXCEPT ![p].pc = "done", ![p].result = r.result]
    /\ UNCHANGED <<kind, files, last, rd, renamed, links0, sidevars>>

\* get_active_version / get_active_sandbox: link.is_symlink()
RdIsSymlink ==
    /\ rd.pc = "idle"
    /\ rd' = IF IsSymlink(links, LinkName(kind))
              THEN [pc |-> "read", result |-> None]
              ELSE [pc |-> "done", result |-> None]
    /\ UNCHANGED <<kind, files, links, last, sw, renamed, links0, sidevars>>

\* get_active_version / get_active_sandbox: link.resolve() / link.readlink()
\* and the parse of the target name; readlink of a name that is no longer a
\* link raises OSError
RdReadlink ==
    /\ rd.pc = "read"
    /\ rd' = IF kind = "sandbox" /\ ~IsSymlink(links, LinkName(kind))
              THEN [pc |-> "done", result |-> <<"OSError">>]
              ELSE [pc |-> "done",
                    result |-> ParseOf(kind, ResolveName(links, LinkName(kind)))]
    /\ UNCHANGED <<kind, files, links, last, sw, renamed, links0, sidevars>>

NextConc ==
    \/ \E p \in Procs : SwStart(p)
    \/ \E p \in Procs : SwLn(p)
    \/ \E p \in Procs : SwMv(p)
    \/ \E p \in Procs : SwExcept(p)
    \/ RdIsSymlink
    \/ RdReadlink

SpecConc == InitConc /\ [][NextConc]_vars

\* ---- an image directory that also holds base images and leftovers ----
InitPurge ==
    /\ kind = "image"
    /\ \E S \in SUBSET ArtifactNames("image"), E \in SUBSET ExtraNames :
         \E fv \in [S -> [type : {"file"}, mtime : 1..MaxMtime]] :
           /\ DenseMtimes(fv)
           /\ files = [n \in S \cup E |-> IF n \in S THEN fv[n]
                                          ELSE [type |-> "file", mtime |-> 1]]
    /\ \/ links = << >>
       \/ \E n \in ArtifactNames("image") : links = [x \in {LinkName("image")} |-> [target |-> n]]
    /\ last = NoCall
    /\ IdleConc
    /\ links0 = << >>
    /\ IdleSide

CleanupSifs ==
    /\ kind = "image"
    /\ \E keep \in 0..MaxKeep, failAt \in 0..MaxFailAt :
         \E r \in {cleanup_sifs(files, links, keep, failAt)} :
         /\ files' = r.files
         /\ links' = r.links
         /\ last' = Called("purge", None, keep, r.result,
                           IF r.result = "ok" THEN r.removed ELSE None)
    /\ UNCHANGED <<kind, concvars, sidevars>>

NextPurge ==
    \/ Cleanup
    \/ CleanupSifs

SpecPurge == InitPurge /\ [][NextPurge]_vars

\* ---- queries on a directory with entries of every sort ----
\* entries that do not match the kind's pattern
OtherNames(k) ==
    IF k = "image" THEN {BaseName("1"), StrayName}
    ELSE {<<"sandbox-", "latest">>, <<"sandbox">>}

\* conforming names of either file type, other names, and at the pointer's
\* name nothing, a regular file or a link to any of these names
InitCatalog ==
    /\ kind \in Kinds
    /\ \E S \in SUBSET ArtifactNames(kind), E \in SUBSET OtherNames(kind), P \in BOOLEAN :
         \E fv \in [S -> [type : {"file", "dir"}, mtime : 1..MaxMtime]] :
           /\ DenseMtimes(fv)
           /\ files = [n \in S \cup E \cup (IF P THEN {LinkName(kind)} ELSE {}) |->
                          IF n \in S THEN fv[n]
                          ELSE [type |-> IF n \in E THEN ArtifactType(kind) ELSE "file",
                                mtime |-> 1]]
           /\ \/ links = << >>
              \/ /\ ~P
                 /\ \E n \in ArtifactNames(kind) \cup OtherNames(kind) :
                       links = [x \in {LinkName(kind)} |-> [target |-> n]]
    /\ last = NoCall
    /\ IdleConc
    /\ links0 = << >>
    /\ IdleSide

ListVersions ==
    /\ kind = "image"
    /\ \E present \in BOOLEAN :
         \E r \in {list_versions(present, files, links)} :
           res' = [op |-> "list", present |-> present, result |-> r.result, ret |-> r.ret]
    /\ UNCHANGED <<kind, files, links, last, concvars, target_dir, cl, defs, sidecar>>

ListSandboxes ==
    /\ kind = "sandbox"
    /\ \E present \in BOOLEAN :
         \E r \in {list_sandboxes(present, files, links)} :
           res' = [op |-> "list", present |-> present, result |-> r.result, ret |-> r.ret]
    /\ UNCHANGED <<kind, files, links, last, concvars, target_dir, cl, defs, sidecar>>

GetActiveVersion ==
    /\ kind = "image"
    /\ \E present \in BOOLEAN :
         res' = [op |-> "lookup", present |-> present, result |-> "ok",
                 ret |-> get_active_version(Seen(present, links))]
    /\ UNCHANGED <<kind, files, links, last, concvars, target_dir, cl, defs, sidecar>>

GetActiveSandbox ==
    /\ kind = "sandbox"
    /\ \E present \in BOOLEAN :
         res' = [op |-> "lookup", present |-> present, result |-> "ok",
                 ret |-> get_active_sandbox(Seen(present, links))]
    /\ UNCHANGED <<kind, files, links, last, concvars, target_dir, cl, defs, sidecar>>

NextCatalog ==
    \/ ListVersions
    \/ ListSandboxes
    \/ GetActiveVersion
    \/ GetActiveSandbox

SpecCatalog == InitCatalog /\ [][NextCatalog]_vars

\* ---- names and versions ----
\* the pieces a name is made of
NameTokens == {"scitex-v", "sandbox-", ".sif", "1", StampTokens[1], "x"}

SeqsUpTo(T, n) == UNION { [1..m -> T] : m \in 1..n }

\* the names given to the parsers
NameInputs == SeqsUpTo(NameTokens, MaxNameLen)

\* the version strings switch and cleanup format into a name: any non-empty
\* string for an image, a timestamp for a sandbox
VersionInputs(k) ==
    IF k = "image" THEN SeqsUpTo(NameTokens, MaxNameLen - 2)
    ELSE { <<StampTokens[n]>> : n \in 1..Len(StampTokens) }

\* a directory with one entry of the kind's file type under any name, or a
\* version string to format
InitNames ==
    /\ kind \in Kinds
    /\ \/ /\ \E n \in NameInputs : files = [x \in {n} |-> [type |-> ArtifactType(kind), mtime |-> 1]]
          /\ res = [op |-> "input", version |-> None, name |-> None, ret |-> None]
       \/ /\ files = << >>
          /\ \E v \in VersionInputs(kind) :
                res = [op |-> "input", version |-> v, name |-> None, ret |-> None]
    /\ links = << >>
    /\ last = NoCall
    /\ IdleConc
    /\ links0 = << >>
    /\ defs = << >>
    /\ sidecar = << >>
    /\ target_dir = NoTarget
    /\ cl = IdleCleanup

\* _parse_version(sif) / _parse_sandbox_version(sb) on an entry of the directory
ParseEntry ==
    /\ res.op = "input"
    /\ \E n \in DOMAIN files :
         res' = [op |-> "parse", version |-> None, name |-> n, ret |-> ParseOf(kind, n)]
    /\ UNCHANGED <<kind, files, links, last, concvars, target_dir, cl, defs, sidecar>>

\* target_name = f"scitex-v{version}.sif" / f"sandbox-{version}", and the
\* parse of that name
FormatThenParse ==
    /\ res.op = "input"
    /\ res.version # None
    /\ res' = [op |-> "roundtrip", version |-> res.version,
                name |-> TargetName(kind, res.version),
                ret |-> ParseOf(kind, TargetName(kind, res.version))]
    /\ UNCHANGED <<kind, files, links, last, concvars, target_dir, cl, defs, sidecar>>

NextNames ==
    \/ ParseEntry
    \/ FormatThenParse
    \/ ListVersions
    \/ ListSandboxes

SpecNames == InitNames /\ [][NextNames]_vars

\* ---- verify on a directory with a definition, hash and lock files ----
DefNames == { <<"scitex-v", "1">> }

DefContents == {"c1", "c2"}

\* what pip freeze / dpkg-query print and what a lock file holds: nothing,
\* with and without the final line break, two packages in both orders, one
\* package twice
LockTexts ==
    { << >>, <<"a==1">>, <<"a==1", "">>, <<"a==1", "b==2", "">>,
      <<"b==2", "a==1", "">>, <<"a==1", "a==1", "">> }

ProcOutcomes ==
    { [outcome |-> "exit0", stdout |-> t] : t \in LockTexts }
      \cup { [outcome |-> o, stdout |-> << >>] : o \in {"nonzero", "timeout", "error"} }

\* the arguments of a verify call and what its commands will do: lock_dir is
\* left out (the SIF's directory) or names a directory without lock files;
\* cmd_found tells whether detect_container_cmd finds a command
VerifyInputs ==
    [op : {"verify_input"}, sif : {ImageName(<<"1">>)}, def : {None} \cup DefNames,
     lock_here : BOOLEAN, cmd_found : BOOLEAN,
     pip_proc : ProcOutcomes, dpkg_proc : ProcOutcomes, report : {None},
     calls : {0}, first : {None}]

\* the maps from some of the names to one value of vals each
PartialMaps(names, vals) == UNION { [S -> vals] : S \in SUBSET names }

Merge(f, g) == [x \in DOMAIN f \cup DOMAIN g |-> IF x \in DOMAIN f THEN f[x] ELSE g[x]]

InitVerify ==
    /\ target_dir = NoTarget
    /\ cl = IdleCleanup
    /\ kind = "image"
    /\ files \in PartialMaps({ImageName(<<"1">>)}, [type : {"file"}, mtime : {1}])
    /\ links = << >>
    /\ defs \in PartialMaps(DefNames, DefContents)
    /\ \E h \in PartialMaps({DefHashName}, { HashFileText(_hash_file(c)) : c \in DefContents }),
          l \in PartialMaps({PipLockName, DpkgLockName}, LockTexts) :
         sidecar = Merge(h, l)
    /\ res \in VerifyInputs
    /\ last = NoCall
    /\ IdleConc
    /\ links0 = << >>

\* verify(sif_path, def_path, lock_dir) with the arguments and command
\* outcomes held in res
Verify ==
    /\ kind = "image"
    /\ res.op = "verify_input"
    /\ res' = [res EXCEPT
                 !.op = "verify",
                 !.calls = 1,
                 !.report = verify(files, links, defs, sidecar,
                                   IF res.lock_here THEN sidecar ELSE << >>,
                                   res.sif, res.def, res.cmd_found, res.pip_proc, res.dpkg_proc)]
    /\ sidecar' = VerifyWrites(defs, sidecar, res.def)
    /\ UNCHANGED <<kind, files, links, last, concvars, target_dir, cl, defs>>

\* the same call once more, the commands printing what they printed before;
\* the report of the first call is kept in res.first
VerifyAgain ==
    /\ kind = "image"
    /\ res.op = "verify" /\ res.calls = 1
    /\ res' = [res EXCEPT
                 !.calls = 2,
                 !.first = res.report,
                 !.report = verify(files, links, defs, sidecar,
                                   IF res.lock_here THEN sidecar ELSE << >>,
                                   res.sif, res.def, res.cmd_found, res.pip_proc, res.dpkg_proc)]
    /\ sidecar' = VerifyWrites(defs, sidecar, res.def)
    /\ UNCHANGED <<kind, files, links, last, concvars, target_dir, cl, defs>>

NextVerify ==
    \/ Verify
    \/ VerifyAgain

SpecVerify == InitVerify /\ [][NextVerify]_vars

\* ---- every operation that reads or writes a directory but switch ----
\* the artifacts a directory holds before anything is built in it: up to two
\* older versions
OlderNames(k) ==
    { TargetName(k, <<(IF k = "image" THEN VersionTokens ELSE StampTokens)[n]>>) : n \in 1..2 }

\* a directory of Init with up to two artifacts and the definition files
\* next to it
InitFrame ==
    /\ target_dir = NoTarget
    /\ cl = IdleCleanup
    /\ kind \in Kinds
    /\ \E S \in SUBSET OlderNames(kind) :
           /\ files \in [S -> [type : {ArtifactType(kind)}, mtime : 1..MaxMtime]]
           /\ DenseMtimes(files)
    /\ \/ links = << >>
       \/ \E n \in OlderNames(kind) : links = [x \in {LinkName(kind)} |-> [target |-> n]]
    /\ defs \in PartialMaps(DefNames, {"c1"})
    /\ sidecar = << >>
    /\ res = NoRes
    /\ last = NoCall
    /\ IdleConc
    /\ links0 = << >>

\* the outcomes of the builder: exit status 0 or not
BuildOutcomes == {"ok", "nonzero"}

\* the builder runs only when detect_container_cmd has found it
BuildOutcomesOf(cmd_found) == IF cmd_found THEN BuildOutcomes ELSE {"nonzero"}

\* freeze and the commands of the symlink update run only after a build that
\* exited with 0
NoFreeze == CHOOSE f \in FreezeOutcomes : f.pip.outcome # "exit0"

NoCommands == [ln |-> "ok", mv |-> "ok", unlink |-> "ok"]

\* ln and mv are run by create, without sudo, and exit with 0 or not
ExitEnvs == { e \in EnvsOf(FALSE) : e.ln # "spawn" /\ e.mv # "spawn" }

\* build(def_name, force=force, sandbox=sandbox), a SIF in a directory of
\* images and a sandbox in one of sandboxes; times stay within MaxMtime
BuildOf(names) ==
    /\ Now(files) <= MaxMtime
    /\ \E def_name \in names, force \in BOOLEAN, sandbox \in {kind = "sandbox"},
          cmd_found \in BOOLEAN :
         \E build_out \in BuildOutcomesOf(cmd_found) :
         \E freeze_out \in (IF build_out = "ok" THEN FreezeOutcomes ELSE {NoFreeze}) :
         \E r \in {build(files, links, defs, sidecar, def_name, force, sandbox, cmd_found,
                         build_out, freeze_out)} :
         /\ files' = r.files
         /\ sidecar' = r.sidecar
         /\ last' = Called("build", def_name, 0, r.result,
                           IF r.ret = None THEN None ELSE <<r.ret>>)
         /\ res' = [op |-> "build", force |-> force, sandbox |-> sandbox, ran |-> r.ran]
    /\ UNCHANGED <<kind, links, concvars, target_dir, cl, defs>>

Build == BuildOf(DefNames)

\* the output_dir arguments of create: none, a directory of another name in
\* containers_dir, or one somewhere else
OutputDirs == { None, <<"sandbox-", "latest">>, <<"../", "sandbox-", "latest">> }

\* datetime.now().strftime("%Y%m%d_%H%M%S") of a creation: the last of the stamps
ClockStamp == <<StampTokens[NumVersions]>>

\* create(source, containers_dir, output_dir=output_dir) at the time stamp
CreateSandbox ==
    /\ kind = "sandbox"
    /\ Now(files) <= MaxMtime
    /\ \E source \in DefNames, output_dir \in OutputDirs, stamp \in {ClockStamp},
          cmd_found \in BOOLEAN, id \in SeqIds :
         \E build_out \in BuildOutcomesOf(cmd_found) :
         \E env \in (IF build_out = "ok" THEN ExitEnvs ELSE {NoCommands}) :
         \E r \in {create(files, links, defs, source,
                          IF output_dir # None THEN output_dir ELSE SandboxName(stamp),
                          cmd_found, build_out, id, env)} :
         /\ files' = r.files
         /\ links' = r.links
         /\ last' = Called("create", output_dir, 0, r.result,
                           IF r.ret = None THEN None ELSE <<r.ret>>)
    /\ UNCHANGED <<kind, concvars, sidevars>>

\* the commands of a verify call made here print what freeze printed
VerifyProcs == { [outcome |-> "exit0", stdout |-> <<"a==1", "">>] }

\* verify(sif_path, def_path) on the directory as it is
VerifyCall ==
    /\ kind = "image"
    /\ \E sif \in {ImageName(<<"1">>)}, def \in DefNames, cmd_found \in BOOLEAN,
          proc \in VerifyProcs :
         /\ res' = [op |-> "verify", sif |-> sif, def |-> def, lock_here |-> TRUE,
                 cmd_found |-> cmd_found, pip_proc |-> proc, dpkg_proc |-> proc,
                 report |-> verify(files, links, defs, sidecar, sidecar, sif, def,
                                   cmd_found, proc, proc),
                 calls |-> 1, first |-> None]
         /\ sidecar' = VerifyWrites(defs, sidecar, def)
    /\ UNCHANGED <<kind, files, links, last, concvars, target_dir, cl, defs>>

NextFrame ==
    \/ Build
    \/ CreateSandbox
    \/ Cleanup
    \/ CleanupSandboxes
    \/ ListVersions
    \/ ListSandboxes
    \/ GetActiveVersion
    \/ GetActiveSandbox
    \/ VerifyCall

SpecFrame == InitFrame /\ [][NextFrame]_vars

\* ---- builds of several definitions into one directory ----
\* the definition files of the directory
BuildDefs == { <<"scitex-v", "1">>, <<"scitex-v", "2">> }

\* what .def-hash may hold: the digest of a content with or without the
\* final line break, or nothing but a line break
HashTexts ==
    { HashFileText(_hash_file(c)) : c \in DefContents }
      \cup { _hash_file(c) : c \in {"c1"} } \cup { <<"", "">> }

\* a directory of definition files, the images built of some of them, and a
\* hash record or none
InitBuild ==
    /\ target_dir = NoTarget
    /\ cl = IdleCleanup
    /\ kind = "image"
    /\ defs \in PartialMaps(BuildDefs, DefContents)
    /\ \E S \in SUBSET { BuildOutput(n, FALSE) : n \in BuildDefs } :
           /\ files \in [S -> [type : {"file"}, mtime : 1..MaxMtime]]
           /\ DenseMtimes(files)
    /\ links = << >>
    /\ sidecar \in PartialMaps({DefHashName}, HashTexts)
    /\ res = NoRes
    /\ last = NoCall
    /\ IdleConc
    /\ links0 = << >>

BuildAny == BuildOf(BuildDefs)

\* status(containers_dir)
Status ==
    /\ res' = [op |-> "status", ret |-> status(files, links, defs, sidecar)]
    /\ UNCHANGED <<kind, files, links, last, concvars, target_dir, cl, defs, sidecar>>

\* the user edits a definition file
EditDef ==
    /\ \E name \in DOMAIN defs :
         \E c \in DefContents \ {defs[name]} :
           defs' = [defs EXCEPT ![name] = c]
    /\ UNCHANGED <<kind, files, links, last, concvars, target_dir, cl, sidecar, res>>

NextBuild ==
    \/ BuildAny
    \/ Status
    \/ EditDef

SpecBuild == InitBuild /\ [][NextBuild]_vars

\* ---- deployment ----
\* the target directories: missing, empty, or holding an image with the
\* pointer on it or without a pointer
Targets ==
    {NoTarget, [present |-> TRUE, files |-> << >>, links |-> << >>]}
      \cup UNION { { [present |-> TRUE,
                      files |-> [n \in {ImageName(v)} |-> [type |-> "file", mtime |-> 1]],
                      links |-> l] :
                       l \in {<< >>, [x \in {LinkName("image")} |-> [target |-> ImageName(v)]]} } :
                   v \in ImageVersions }

\* a source directory of images and base images with any pointer
InitDeploy ==
    /\ kind = "image"
    /\ \E S \in SUBSET ArtifactNames("image"), E \in SUBSET BaseNames :
         \E fv \in [S -> [type : {"file"}, mtime : 1..MaxMtime]] :
           /\ DenseMtimes(fv)
           /\ files = [n \in S \cup E |-> IF n \in S THEN fv[n]
                                          ELSE [type |-> "file", mtime |-> 1]]
    /\ \/ links = << >>
       \/ \E n \in ArtifactNames("image") : links = [x \in {LinkName("image")} |-> [target |-> n]]
    /\ target_dir \in Targets
    /\ cl = IdleCleanup
    /\ defs = << >>
    /\ sidecar = << >>
    /\ res = NoRes
    /\ last = NoCall
    /\ IdleConc
    /\ links0 = << >>

\* deploy(source_dir, target_dir); times in the target stay within MaxMtime + 1
Deploy ==
    /\ kind = "image"
    /\ Now(target_dir.files) <= MaxMtime
    /\ \E id \in SeqIds, env \in DeployEnvs :
         \E r \in {deploy(files, links, target_dir, id, env)} :
           /\ target_dir' = r.target
           /\ last' = Called("deploy", get_active_version(links), 0, r.result, None)
    /\ UNCHANGED <<kind, files, links, concvars, defs, sidecar, res, cl>>

NextDeploy == Deploy

SpecDeploy == InitDeploy /\ [][NextDeploy]_vars

\* ---- a cleanup running with a switch ----
\* a directory with all versions, of any age, and a pointer on one of them
\* or none
InitRace ==
    /\ kind \in Kinds
    /\ files \in [ArtifactNames(kind) -> [type : {ArtifactType(kind)}, mtime : 1..MaxMtime]]
    /\ DenseMtimes(files)
    /\ \/ links = << >>
       \/ \E n \in ArtifactNames(kind) : links = [x \in {LinkName(kind)} |-> [target |-> n]]
    /\ last = NoCall
    /\ IdleConc
    /\ links0 = links
    /\ IdleSide

\* cleanup / cleanup_sandboxes up to the loop: the active version and the
\* sorted list are read once
ClStart ==
    /\ cl.pc = "idle"
    /\ \E keep \in 0..MaxKeep :
         cl' = [pc |-> "loop", keep |-> keep, active |-> ActiveOf(kind, links),
                todo |-> CatalogOf(kind, files, links), kept |-> 0, result |-> "none"]
    /\ UNCHANGED <<kind, files, links, last, concvars, defs, sidecar, res, target_dir>>

\* one round of the loop: the entry is skipped, counted as kept, or removed
\* with sif.unlink() / shutil.rmtree(sb), which raises when it is gone
ClStep ==
    /\ cl.pc = "loop"
    /\ IF cl.todo = << >>
       THEN cl' = [cl EXCEPT !.pc = "done", !.result = "ok"] /\ files' = files
       ELSE LET sif == Head(cl.todo) IN
            IF ParseOf(kind, sif) = None \/ IsProtected(kind, sif, cl.active)
            THEN cl' = [cl EXCEPT !.todo = Tail(cl.todo)] /\ files' = files
            ELSE IF WithinBudget(cl.kept, cl.keep)
            THEN cl' = [cl EXCEPT !.todo = Tail(cl.todo), !.kept = cl.kept + 1] /\ files' = files
            ELSE IF sif \notin DOMAIN files
            THEN cl' = [cl EXCEPT !.pc = "done", !.result = "RemoveError"] /\ files' = files
            ELSE cl' = [cl EXCEPT !.todo = Tail(cl.todo)] /\ files' = Without(files, sif)
    /\ UNCHANGED <<kind, links, last, concvars, defs, sidecar, res, target_dir>>

NextRace ==
    \/ SwStart("p1")
    \/ SwLn("p1")
    \/ SwMv("p1")
    \/ SwExcept("p1")
    \/ ClStart
    \/ ClStep

SpecRace == InitRace /\ [][NextRace]_vars

\* ---- properties ----
Min(a, b) == IF a < b THEN a ELSE b

\* the artifacts of the directory: the names that match the kind's pattern
\* and have the kind's file type
Artifacts(k, fs) ==
    { n \in DOMAIN fs : ParseOf(k, n) # None /\ fs[n].type = ArtifactType(k) }

\* the artifacts other than the one the active version names
NonActive(k, fs, active) == { n \in Artifacts(k, fs) : ParseOf(k, n) # active }

TmpNames(k) == { TmpName(k, id) : id \in Ids }

SwitchDone == last.op = "switch" /\ last.result = "ok"

\* C1: after a switch to version v that returned without raising, the
\* active-version lookup returns v (images and sandboxes).
C1_SwitchSetsActive ==
    SwitchDone => ActiveOf(kind, links) = last.version

C1_Witness ==
    /\ SwitchDone
    /\ ActiveOf(kind, links) = last.version
    /\ Cardinality(Artifacts(kind, files)) >= 2

\* C2: a switch whose target artifact is not in the directory raises NotFound
\* and changes nothing: pointer, active version, catalog, no temporary link.
C2_MissingTargetNoEffect ==
    [][ (last'.op = "switch" /\ TargetName(kind, last'.version) \notin DOMAIN files)
          => /\ last'.result = "NotFound"
             /\ links' = links
             /\ files' = files
             /\ ActiveOf(kind, links') = ActiveOf(kind, links) ]_vars

C2_Witness ==
    /\ last.op = "switch"
    /\ last.result = "NotFound"
    /\ TargetName(kind, last.version) \notin DOMAIN files
    /\ ActiveOf(kind, links) # None
    /\ DOMAIN links \cap TmpNames(kind) = {}

\* C3: cleanup and cleanup_sandboxes never remove the artifact whose version
\* equals the active version, wherever it sits in the catalog, and never
\* change the active pointer: the active version is the same before and after.
C3_CleanupProtectsActive ==
    [][ last'.op = "cleanup"
          => /\ links' = links
             /\ ActiveOf(kind, links') = ActiveOf(kind, links)
             /\ \A n \in Artifacts(kind, files) :
                   ParseOf(kind, n) = ActiveOf(kind, links) => n \in Artifacts(kind, files') ]_vars

\* the active artifact survived a cleanup(keep=0) although it is the oldest
C3_Witness ==
    /\ last.op = "cleanup"
    /\ last.keep = 0
    /\ last.result = "ok"
    /\ Len(last.ret) >= 2
    /\ ActiveOf(kind, links) # None
    /\ Artifacts(kind, files) = { TargetName(kind, ActiveOf(kind, links)) }
    /\ files[TargetName(kind, ActiveOf(kind, links))].mtime = 1

\* C4: a cleanup(keep) that returns removes exactly the non-active artifacts
\* that are not among the first keep non-active entries of the newest-first
\* catalog: no retained non-active artifact is older than a removed one, the
\* number of non-active artifacts left is min(keep, totalNonActive), and the
\* returned list is the removed artifacts.
C4_CleanupKeepsNewest ==
    [][ (last'.op = "cleanup" /\ last'.result = "ok")
          => LET active == ActiveOf(kind, links)
                 before == NonActive(kind, files, active)
                 after == NonActive(kind, files', active)
                 gone == DOMAIN files \ DOMAIN files'
             IN /\ after \subseteq before
                /\ gone = before \ after
                /\ Cardinality(after) = Min(last'.keep, Cardinality(before))
                /\ \A r \in after, d \in gone : files[r].mtime >= files[d].mtime
                /\ { last'.ret[i] : i \in 1..Len(last'.ret) } = gone
                /\ \A n \in DOMAIN files' : files'[n] = files[n] ]_vars

\* v1 oldest, v2, v3 newest and active: cleanup(keep=1) removed exactly v1
C4_Witness ==
    /\ last.op = "cleanup"
    /\ last.result = "ok"
    /\ last.keep = 1
    /\ \E v1, v2, v3 \in VersionsOf(kind) :
          /\ last.ret = <<TargetName(kind, v1)>>
          /\ ActiveOf(kind, links) = v3
          /\ DOMAIN files = {TargetName(kind, v2), TargetName(kind, v3)}
          /\ files[TargetName(kind, v2)].mtime < files[TargetName(kind, v3)].mtime

RollbackDone == last.op = "rollback" /\ last.result = "ok"

\* the position of version v in the newest-first catalog, 0 if it has none
CatalogIndex(k, fs, ls, v) ==
    LET versions == VersionsIn(k, CatalogOf(k, fs, ls)) IN
    IF \E i \in 1..Len(versions) : versions[i] = v
    THEN CHOOSE i \in 1..Len(versions) : versions[i] = v
    ELSE 0

CatalogLen(k, fs, ls) == Len(CatalogOf(k, fs, ls))

\* C5: a rollback that returns never makes the active version newer: the
\* newly active artifact is not modified later than the previously active
\* one and sits strictly further down the newest-first catalog.
C5_RollbackNotNewer ==
    [][ (last'.op = "rollback" /\ last'.result = "ok")
          => LET old == TargetName(kind, ActiveOf(kind, links))
                 new == TargetName(kind, ActiveOf(kind, links'))
             IN /\ ActiveOf(kind, links) # None
                /\ ActiveOf(kind, links') # None
                /\ old \in DOMAIN files
                /\ new \in DOMAIN files
                /\ new # old
                /\ files[new].mtime <= files[old].mtime
                /\ CatalogIndex(kind, files, links, ActiveOf(kind, links'))
                     > CatalogIndex(kind, files, links, ActiveOf(kind, links)) ]_vars

\* rolled back to an artifact that is strictly older than another one
C5_Witness ==
    /\ RollbackDone
    /\ ActiveOf(kind, links) = last.ret
    /\ \E n \in Artifacts(kind, files) :
          files[n].mtime > files[TargetName(kind, last.ret)].mtime

\* C6: with the active version at index i of the newest-first catalog, i not
\* the last index, a rollback that returns has switched the pointer to the
\* entry at index i+1 and returns that version; the result is a function of
\* the current catalog and active version only (no artifact lies between the
\* old and the new active one), and rollback refuses only when there is no
\* such i.
C6_RollbackNextOlder ==
    [][ last'.op = "rollback"
          => LET active == ActiveOf(kind, links)
                 i == CatalogIndex(kind, files, links, active)
                 versions == VersionsIn(kind, CatalogOf(kind, files, links))
                 hasOlder == active # None /\ i >= 1 /\ i < Len(versions)
             IN /\ last'.result = "ok"
                    => /\ hasOlder
                       /\ last'.ret = versions[i + 1]
                       /\ ActiveOf(kind, links') = last'.ret
                       /\ files' = files
                       /\ \A n \in Artifacts(kind, files) :
                             ~( /\ files[n].mtime < files[TargetName(kind, active)].mtime
                                /\ files[n].mtime > files[TargetName(kind, last'.ret)].mtime )
                /\ hasOlder => last'.result \notin {"NoActive", "NotInDirectory", "NoOlder"} ]_vars

\* rolled back from an active version that was not the newest: the state a
\* switch to a middle version followed by a rollback ends in
C6_Witness ==
    /\ RollbackDone
    /\ ActiveOf(kind, links) = last.ret
    /\ CatalogLen(kind, files, links) = 3
    /\ CatalogIndex(kind, files, links, last.ret) = 3

\* C7 as stated: rollback fails and leaves pointer and catalog untouched when
\* there is no active version, when the active version is the last catalog
\* entry and when it is not in the catalog; the last two are both reported as
\* "no older version".
C7_RollbackRefusalsSameReport ==
    [][ last'.op = "rollback"
          => LET active == ActiveOf(kind, links)
                 i == CatalogIndex(kind, files, links, active)
             IN /\ active = None => (last'.result = "NoActive" /\ UNCHANGED <<files, links>>)
                /\ (active # None /\ (i = 0 \/ i = CatalogLen(kind, files, links)))
                     => (last'.result = "NoOlder" /\ UNCHANGED <<files, links>>) ]_vars

\* C7 amended: the three cases raise RuntimeError and leave pointer and
\* catalog untouched; the active version being the last entry is reported as
\* "No older version", its absence from the catalog as "not found in
\* directory".
C7_RollbackRefusals ==
    [][ last'.op = "rollback"
          => LET active == ActiveOf(kind, links)
                 i == CatalogIndex(kind, files, links, active)
             IN /\ active = None => (last'.result = "NoActive" /\ UNCHANGED <<files, links>>)
                /\ (active # None /\ i = 0)
                     => (last'.result = "NotInDirectory" /\ UNCHANGED <<files, links>>)
                /\ (active # None /\ i >= 1 /\ i = CatalogLen(kind, files, links))
                     => (last'.result = "NoOlder" /\ UNCHANGED <<files, links>>) ]_vars

\* a rollback refused because the active version is not in the catalog
C7_Witness ==
    /\ last.op = "rollback"
    /\ last.result = "NotInDirectory"
    /\ ActiveOf(kind, links) # None
    /\ TargetName(kind, ActiveOf(kind, links)) \notin DOMAIN files
    /\ CatalogLen(kind, files, links) >= 1

\* C10 as stated: when the ln or the mv of a switch fails (non-zero exit or
\* not runnable, with or without sudo) the call raises the switch-failure
\* RuntimeError, the pointer resolves as before and no temporary link is left.
C10_FailedSwitchLeavesNothing ==
    [][ (last'.op = "switch" /\ last'.result \notin {"ok", "NotFound"})
          => /\ last'.result = "SwitchFailed"
             /\ ActiveOf(kind, links') = ActiveOf(kind, links)
             /\ LinkName(kind) \in DOMAIN links => links'[LinkName(kind)] = links[LinkName(kind)]
             /\ DOMAIN links' \cap TmpNames(kind) = {} ]_vars

Failed(p) == sw[p].pc = "done" /\ sw[p].result \notin {"ok", "none"}

\* C8: a lookup that runs while switch calls are in progress returns the
\* version that was active before them (none only if there was no pointer)
\* or the target of a call that has started; never a missing pointer that
\* existed before, a half-written pointer or the temporary link.
C8_ReaderSeesOldOrNew ==
    rd.pc = "done"
      => rd.result \in {ActiveOf(kind, links0)}
                         \cup { sw[p].version : p \in { q \in Procs : sw[q].pc \notin {"idle", "ln"} } }

\* the lookup passed is_symlink on the old pointer and then read the new one
\* of the only switch call
C8_Witness ==
    /\ rd.pc = "done"
    /\ sw["p2"].pc = "idle"
    /\ sw["p1"].result = "ok"
    /\ rd.result = sw["p1"].version
    /\ ActiveOf(kind, links0) \notin {None, rd.result}

\* C9: two concurrent switch calls, any interleaving, also with the same
\* temporary link name: every rename installs the target of the call that
\* issued it, once both calls have finished the pointer resolves to the target
\* of the call whose rename executed last, and a call that reports failure
\* has not changed the pointer.
C9_LastRenameWins ==
    /\ renamed.by # ""
         => renamed.installed = TargetName(kind, sw[renamed.by].version)
    /\ (renamed.by # "" /\ \A p \in Procs : sw[p].pc = "done")
         => ActiveOf(kind, links) = sw[renamed.by].version
    /\ \A p \in Procs :
         (Failed(p) /\ renamed.by = "") => ActiveOf(kind, links) = ActiveOf(kind, links0)
    /\ \A p, q \in Procs :
         (p # q /\ Failed(p) /\ sw[q].result = "ok" /\ sw[p].version # sw[q].version)
           => ActiveOf(kind, links) # sw[p].version

\* ---- base images, purge ----
BaseImages(fs) == { n \in DOMAIN fs : n \in BaseNames }

\* C11: cleanup never removes a base image (scitex-base-v<N>.sif), for any
\* keep >= 0 and whatever the active version is, and base images are not
\* counted against the keep budget: the non-active versioned images left by a
\* cleanup that returns are min(keep, their number before).
C11_CleanupKeepsBase ==
    [][ last'.op = "cleanup"
          => /\ \A n \in BaseImages(files) : n \in DOMAIN files' /\ files'[n] = files[n]
             /\ \A n \in DOMAIN files \ DOMAIN files' : _parse_version(n) # None
             /\ last'.result = "ok"
                  => LET active == ActiveOf(kind, links) IN
                     Cardinality(NonActive(kind, files', active))
                       = Min(last'.keep, Cardinality(NonActive(kind, files, active))) ]_vars

\* a cleanup(keep=0) removed versioned images next to two base images
C11_Witness ==
    /\ last.op = "cleanup"
    /\ last.result = "ok"
    /\ last.keep = 0
    /\ Len(last.ret) >= 2
    /\ BaseImages(files) = BaseNames
    /\ ActiveOf(kind, links) = None

\* C12 as stated: cleanup_sifs never removes a base image, for any keep >= 0.
C12_PurgeKeepsBase ==
    [][ last'.op = "purge"
          => \A n \in BaseImages(files) : n \in DOMAIN files' ]_vars

\* C13 as stated: cleanup_sifs drops the pointer current.sif only when
\* keep = 0; with keep >= 1 and the active image among the newest keep images
\* the pointer is left in place and the active version is the same after the
\* purge.
C13_PurgeDropsPointerOnlyAtZero ==
    [][ (last'.op = "purge" /\ last'.keep >= 1)
          => LET active == ActiveOf(kind, links)
                 i == CatalogIndex(kind, files, links, active)
             IN /\ LinkName(kind) \in DOMAIN links => LinkName(kind) \in DOMAIN links'
                /\ (active # None /\ i >= 1 /\ i <= last'.keep)
                     => (links' = links /\ ActiveOf(kind, links') = active) ]_vars

\* ---- queries ----
Listed == res.op = "list" /\ res.result = "ok" /\ res.present

\* C15: list_versions / list_sandboxes return each directory entry whose name
\* matches the kind's pattern and has the kind's file type exactly once and
\* no other entry, ordered by modification time descending; an entry is
\* flagged active iff its version equals the active version, so at most one
\* entry is flagged.
C15_ListIsCatalog ==
    Listed
      => LET rows == res.ret IN
         /\ { rows[i].path : i \in 1..Len(rows) } = Artifacts(kind, files)
         /\ Len(rows) = Cardinality(Artifacts(kind, files))
         /\ \A i \in 1..Len(rows) : rows[i].path = TargetName(kind, rows[i].version)
         /\ \A i \in 1..(Len(rows) - 1) :
               files[rows[i].path].mtime >= files[rows[i + 1].path].mtime
         /\ \A i \in 1..Len(rows) : rows[i].active <=> (rows[i].version = ActiveOf(kind, links))
         /\ Cardinality({ i \in 1..Len(rows) : rows[i].active }) <= 1

\* two entries listed, strictly ordered, the older one flagged, next to a
\* conforming name of the wrong file type and a non-conforming name
C15_Witness ==
    /\ Listed
    /\ Len(res.ret) = 2
    /\ files[res.ret[1].path].mtime > files[res.ret[2].path].mtime
    /\ res.ret[2].active
    /\ ~res.ret[1].active
    /\ \E n \in DOMAIN files : ParseOf(kind, n) # None /\ files[n].type # ArtifactType(kind)
    /\ \E n \in DOMAIN files : n \in OtherNames(kind)

\* C16 as stated: for both kinds, listing an existing directory without a
\* conforming artifact returns an empty sequence without error, and listing
\* a directory that does not exist fails with NotFound rather than returning
\* an empty sequence.
C16_ListMissingDirectory ==
    res.op = "list"
      => /\ (res.present /\ Artifacts(kind, files) = {})
              => (res.result = "ok" /\ res.ret = << >>)
         /\ ~res.present => res.result = "NotFound"

\* C17: the lookup returns none when the pointer is absent, is not a link or
\* names a target outside the kind's pattern (the pointer stays as it is),
\* and otherwise the version parsed from the target's name, whether or not
\* the target exists.
C17_LookupFromPointer ==
    (res.op = "lookup" /\ res.present)
      => IF LinkName(kind) \notin DOMAIN links THEN res.ret = None
         ELSE LET target == links[LinkName(kind)].target IN
              IF target \in ArtifactNames(kind)
              THEN res.ret # None /\ target = TargetName(kind, res.ret)
              ELSE res.ret = None

\* a lookup that reported the version of a dangling pointer
C17_Witness ==
    /\ res.op = "lookup"
    /\ res.present
    /\ res.ret # None
    /\ links[LinkName(kind)].target \notin DOMAIN files
    /\ Artifacts(kind, files) # {}

\* ---- names ----
\* the names inside the kind's pattern: the formatted valid version strings
PatternNames(k) == { TargetName(k, v) : v \in VersionInputs(k) }

\* C18: for every valid version string v, parsing the name formatted from v
\* (scitex-v{v}.sif, sandbox-{v} with v a timestamp) yields v again; a name
\* outside the pattern parses to none and never appears in a listing.
C18_NameRoundTrip ==
    /\ res.op = "roundtrip" => res.ret = res.version
    /\ res.op = "parse"
         => IF res.name \in PatternNames(kind)
            THEN res.ret # None /\ TargetName(kind, res.ret) = res.name
            ELSE res.ret = None
    /\ Listed
         => \A i \in 1..Len(res.ret) : res.ret[i].path \in PatternNames(kind)

\* a version string that itself ends in ".sif" came back unchanged
C18_Witness ==
    /\ res.op = "roundtrip"
    /\ kind = "image"
    /\ res.version = <<".sif">>
    /\ res.ret = res.version

\* ---- verify ----
Verified == res.op = "verify"

CheckStatuses(report) ==
    {report.def_origin.status, report.pip_lock.status, report.dpkg_lock.status}

\* C19: the report's overall status is pass iff the artifact exists and none
\* of the checks (definition origin, pip lock, dpkg lock) has status fail;
\* skipped checks do not affect it.  If the artifact does not exist, overall
\* is fail and every other check stays skip.
C19_VerifyOverall ==
    Verified
      => /\ res.report.overall \in {"pass", "fail"}
         /\ res.report.overall = "pass"
               <=> (res.sif \in DOMAIN files /\ "fail" \notin CheckStatuses(res.report))
         /\ res.report.sif.exists <=> res.sif \in DOMAIN files
         /\ res.sif \notin DOMAIN files
               => (res.report.overall = "fail" /\ CheckStatuses(res.report) = {"skip"})

\* a report that passes with one check passed and two skipped, and lock
\* files in the directory
C19_Witness ==
    /\ Verified
    /\ res.report.overall = "pass"
    /\ res.report.def_origin.status = "pass"
    /\ res.report.pip_lock.status = "skip"
    /\ res.report.dpkg_lock.status = "skip"
    /\ PipLockName \in DOMAIN sidecar

\* the lock files the call looks at
LocksSeen == IF res.lock_here THEN sidecar ELSE << >>

\* the packages named in a text
Packages(text) == { text[i] : i \in 1..Len(text) } \ {""}

\* the status the comparison of one lock file must give
ExpectedLockStatus(proc, lock_text) ==
    IF /\ proc.outcome = "exit0"
       /\ (Packages(proc.stdout) \ Packages(lock_text))
             \cup (Packages(lock_text) \ Packages(proc.stdout)) = {}
    THEN "pass"
    ELSE "fail"

\* C20 as stated: each lock-file check has status skip iff its lock file is
\* absent from the lock directory; whenever the file is present the check is
\* performed and gives pass iff the symmetric difference of the reported
\* packages and the stored lines is empty, fail otherwise (also for a
\* non-zero exit or an expired wait).
C20_LockCheckSkipsIffAbsent ==
    Verified
      => /\ res.report.pip_lock.status = "skip" <=> PipLockName \notin DOMAIN LocksSeen
         /\ res.report.dpkg_lock.status = "skip" <=> DpkgLockName \notin DOMAIN LocksSeen
         /\ PipLockName \in DOMAIN LocksSeen
               => res.report.pip_lock.status
                    = ExpectedLockStatus(res.pip_proc, LocksSeen[PipLockName])
         /\ DpkgLockName \in DOMAIN LocksSeen
               => res.report.dpkg_lock.status
                    = ExpectedLockStatus(res.dpkg_proc, LocksSeen[DpkgLockName])

\* the calls in which the lock checks are reached: the artifact exists and a
\* container command is installed
LockChecksRun == res.sif \in DOMAIN files /\ res.cmd_found

\* C20 amended: each lock-file check has status skip iff its lock file is
\* absent from the lock directory, the artifact does not exist or no
\* container command is installed; otherwise the check is performed and
\* gives pass iff the symmetric difference is empty, fail otherwise (also
\* for a non-zero exit or an expired wait), and never raises.
C20_LockCheck ==
    Verified
      => /\ res.report.pip_lock.status = "skip"
               <=> ~(LockChecksRun /\ PipLockName \in DOMAIN LocksSeen)
         /\ res.report.dpkg_lock.status = "skip"
               <=> ~(LockChecksRun /\ DpkgLockName \in DOMAIN LocksSeen)
         /\ (LockChecksRun /\ PipLockName \in DOMAIN LocksSeen)
               => res.report.pip_lock.status
                    = ExpectedLockStatus(res.pip_proc, LocksSeen[PipLockName])
         /\ (LockChecksRun /\ DpkgLockName \in DOMAIN LocksSeen)
               => res.report.dpkg_lock.status
                    = ExpectedLockStatus(res.dpkg_proc, LocksSeen[DpkgLockName])

\* pip passed on the same packages in another order and with a different
\* end of text, dpkg failed on an expired wait
C20_Witness ==
    /\ Verified
    /\ res.report.pip_lock.status = "pass"
    /\ res.pip_proc.stdout = <<"b==2", "a==1", "">>
    /\ LocksSeen[PipLockName] = <<"a==1", "b==2", "">>
    /\ res.dpkg_proc.outcome = "timeout"
    /\ res.report.dpkg_lock.status = "fail"

\* where the active pointer of the directory points, None without a pointer
Pointer(ls) == IF LinkName(kind) \in DOMAIN ls THEN ls[LinkName(kind)].target ELSE None

Stale(ds, sc, name) ==
    \/ DefHashName \notin DOMAIN sc
    \/ Strip(sc[DefHashName]) # <<"sha256", ds[name]>>

\* a step that is a build call which found its definition and a builder
BuildStep ==
    /\ res'.op = "build" /\ defs' = defs
    /\ last'.op = "build" /\ last'.result # "NotFound"

ImageOf(name) == name \o <<".sif">>

\* C22: a build call runs the builder iff it is forced, the image is missing
\* or the record is stale; a call that does not run it returns the image and
\* writes nothing; the hash record changes only in a call whose builder
\* exited with 0, and a failed build leaves every file as it was; status
\* reports needs_rebuild iff the image is missing or the record is stale.
C22_StaleIffHashDiffers ==
    [][ /\ BuildStep
          => /\ res'.ran <=> \/ res'.force
                              \/ ImageOf(last'.version) \notin DOMAIN files
                              \/ Stale(defs, sidecar, last'.version)
             /\ ~res'.ran => /\ files' = files /\ sidecar' = sidecar
                              /\ last'.result = "ok"
                              /\ last'.ret = <<ImageOf(last'.version)>>
             /\ last'.result # "ok" => files' = files /\ sidecar' = sidecar
             /\ (res'.ran /\ last'.result = "ok")
                  => /\ ~Stale(defs', sidecar', last'.version)
                     /\ ImageOf(last'.version) \in DOMAIN files'
        /\ (res'.op = "build" /\ last'.op = "build" /\ last'.result = "NotFound")
          => files' = files /\ sidecar' = sidecar
        /\ (res'.op = "status" /\ defs' = defs)
          => \A name \in DOMAIN defs :
                res'.ret[name].needs_rebuild
                  <=> \/ ImageOf(name) \notin DOMAIN files
                      \/ Stale(defs, sidecar, name)
      ]_vars

\* a build without force has just returned the image without running the
\* builder, in a directory whose other image is stale
C22_Witness ==
    /\ res.op = "build" /\ ~res.force /\ ~res.ran
    /\ last.op = "build" /\ last.result = "ok"
    /\ last.version \in DOMAIN defs
    /\ ~Stale(defs, sidecar, last.version)
    /\ \E other \in DOMAIN defs :
         /\ ImageOf(other) \in DOMAIN files
         /\ Stale(defs, sidecar, other)

\* status and build without force take the definition for up to date
Fresh(fs, ls, ds, sc, name) ==
    /\ ~status(fs, ls, ds, sc)[name].needs_rebuild
    /\ ~build(fs, ls, ds, sc, name, FALSE, FALSE, TRUE, "ok", NoFreeze).ran

\* C30: a successful build makes its own definition up to date, and leaves
\* up to date every other definition that was so before it: status gives
\* needs_rebuild = false and build without force does not run the builder.
C30_BuildsKeepOthersFresh ==
    [][ (BuildStep /\ res'.ran /\ last'.result = "ok")
          => /\ Fresh(files', links', defs', sidecar', last'.version)
             /\ \A other \in DOMAIN defs :
                   Fresh(files, links, defs, sidecar, other)
                     => Fresh(files', links', defs', sidecar', other) ]_vars

\* C23: a cleanup whose removal fails after other removals still reports to
\* its caller the artifacts it has removed, and leaves the links as they were.
C23_PartialCleanupReported ==
    [][ (last'.op = "cleanup" /\ last'.result # "ok")
          => /\ links' = links
             /\ { last'.ret[i] : i \in 1..Len(last'.ret) } = DOMAIN files \ DOMAIN files'
      ]_vars

\* C24: a deploy that fails raises RuntimeError or FileNotFoundError
\* (FileNotFoundError exactly when the active image is missing) and leaves
\* the pointer of the target as it was; one that returns has made the active
\* version of the target the one of the source; the source is unchanged.
C24_DeployFailures ==
    [][ (last'.op = "deploy")
          => /\ files' = files /\ links' = links
             /\ last'.result = "ok"
                  => get_active_version(target_dir'.links) = get_active_version(links)
             /\ last'.result # "ok"
                  => /\ DeployRaises(last'.result) \in {"RuntimeError", "FileNotFoundError"}
                     /\ (DeployRaises(last'.result) = "FileNotFoundError")
                          <=> (get_active_version(links) # None
                               /\ ~Exists(files, links, ImageName(get_active_version(links))))
                     /\ get_active_version(target_dir'.links) = get_active_version(target_dir.links)
      ]_vars

\* C25: after a sandbox creation that returns, with the default name or
\* with an output directory, the pointer resolves to the directory that was
\* created; a creation whose build exits non-zero raises RuntimeError and
\* leaves the pointer as it was.
C25_CreatePointsToCreated ==
    [][ (last'.op = "create")
          => /\ last'.result = "ok"
                  => /\ InParent(last'.ret[1])
                     /\ ResolveName(links', LinkName("sandbox")) = last'.ret[1]
                     /\ IsDir(files', links', LinkName("sandbox"))
             /\ last'.result = "BuildFailed" => Pointer(links') = Pointer(links)
      ]_vars

\* C26: with a switch and a cleanup running on one directory, the active
\* pointer never resolves to an artifact that has been removed.
C26_RaceNeverDangles ==
    LinkName(kind) \in DOMAIN links => TargetExists(kind, files, links, ParseOf(kind, links[LinkName(kind)].target))

\* ---- repeated rollback: calls of rollback only ----
\* the directory the first rollback finds is remembered in links0
InitRollback ==
    /\ kind \in Kinds
    /\ \E S \in SUBSET ArtifactNames(kind) :
           /\ files \in [S -> [type : {ArtifactType(kind)}, mtime : 1..MaxMtime]]
           /\ DenseMtimes(files)
    /\ \/ links = << >>
       \/ \E n \in ArtifactNames(kind) : links = [x \in {LinkName(kind)} |-> [target |-> n]]
    /\ last = NoCall
    /\ IdleConc
    /\ links0 = links
    /\ IdleSide

NextRollback ==
    \/ Rollback
    \/ RollbackSandbox

SpecRollback == InitRollback /\ [][NextRollback]_vars

\* C27: with nothing but rollbacks called on a directory of n artifacts, the
\* catalog never changes, every rollback that returns moves the active
\* version strictly further down the newest-first catalog (below the version
\* the first rollback found and below every version active since, so no
\* version is active twice and at most n-1 rollbacks return), and a rollback
\* called with the oldest version active fails with "No older version" and
\* leaves the pointer on it.
C27_RollbackDescends ==
    [][ last'.op = "rollback"
          => LET n == CatalogLen(kind, files, links)
                 i == CatalogIndex(kind, files, links, ActiveOf(kind, links))
                 j == CatalogIndex(kind, files', links', ActiveOf(kind, links'))
                 i0 == CatalogIndex(kind, files, links0, ActiveOf(kind, links0))
             IN /\ files' = files
                /\ CatalogOf(kind, files', links') = CatalogOf(kind, files, links)
                /\ last'.result = "ok"
                     => /\ i0 >= 1 /\ i0 <= i
                        /\ j = i + 1
                        /\ j <= n
                        /\ j - i0 <= n - 1
                /\ last'.result # "ok" => ActiveOf(kind, links') = ActiveOf(kind, links)
                /\ (i >= 1 /\ i = n)
                     => /\ last'.result = "NoOlder"
                        /\ links' = links ]_vars

\* the second rollback in a row has returned, from the newest of three
\* artifacts down to the oldest
C27_Witness ==
    /\ RollbackDone
    /\ CatalogLen(kind, files, links) = 3
    /\ CatalogIndex(kind, files, links0, ActiveOf(kind, links0)) = 1
    /\ CatalogIndex(kind, files, links, ActiveOf(kind, links)) = 3

\* C28: a switch whose ln or mv exited non-zero and whose removal of the
\* temporary link then fails as well still ends in the switch-failure
\* RuntimeError naming the target version; the failure of the removal is
\* never what the caller receives.
C28_PrimaryErrorSurvives ==
    [][ ( /\ last'.op = "switch"
          /\ last'.result \in {"SwitchFailed", "UnlinkError"}
          /\ DOMAIN links' \cap TmpNames(kind) # {} )
          => last'.result = "SwitchFailed" ]_vars

\* ---- switch, rollback, cleanup and purge, one call at a time ----
\* the pointer is absent or resolves to an artifact of the catalog
PointerInCatalog(k, fs, ls) ==
    LinkName(k) \in DOMAIN ls
      => \E i \in 1..CatalogLen(k, fs, ls) : CatalogOf(k, fs, ls)[i] = ls[LinkName(k)].target

\* the other files an image directory starts with: a base image, a leftover
LifecycleExtras == {BaseName("1"), OldName}

\* a directory of artifacts (an image directory may hold base images and
\* leftovers too) whose pointer is absent or resolves to one of them
InitLifecycle ==
    /\ kind \in Kinds
    /\ \E S \in SUBSET ArtifactNames(kind),
          E \in SUBSET (IF kind = "image" THEN LifecycleExtras ELSE {}) :
         \E fv \in [S -> [type : {ArtifactType(kind)}, mtime : 1..MaxMtime]] :
           /\ DenseMtimes(fv)
           /\ files = [n \in S \cup E |-> IF n \in S THEN fv[n]
                                          ELSE [type |-> "file", mtime |-> 1]]
    /\ \/ links = << >>
       \/ \E n \in ArtifactNames(kind) : links = [x \in {LinkName(kind)} |-> [target |-> n]]
    /\ PointerInCatalog(kind, files, links)
    /\ last = NoCall
    /\ IdleConc
    /\ links0 = << >>
    /\ IdleSide

NextLifecycle ==
    \/ SwitchVersion
    \/ SwitchSandbox
    \/ Rollback
    \/ RollbackSandbox
    \/ Cleanup
    \/ CleanupSandboxes
    \/ CleanupSifs

SpecLifecycle == InitLifecycle /\ [][NextLifecycle]_vars

\* C29: from a directory whose pointer is absent or resolves to an artifact
\* of the catalog, after any sequence of switch, rollback, cleanup and purge
\* calls made one at a time, returning or failing, the pointer is absent or
\* resolves to an artifact that is still in the catalog.
C29_NoDanglingPointer == PointerInCatalog(kind, files, links)

====
